---- MODULE Spec2Model ----
(***************************************************************************)
(* A model of the resume builder: the LangGraph workflow of                *)
(* CVEnhancementAgent (load -> enhance -> generate output) with its chain  *)
(* of three PDF engines, the TTL cache around                              *)
(* get_access_token_from_copilot, and the two identifier classifiers.      *)
(*                                                                         *)
(* It also models the remote loaders: AdobeExpressLoader (URN extraction,  *)
(* token fallback, document request and text mining) and                   *)
(* AdobeAcrobatLoader.                                                     *)
(*                                                                         *)
(* The specifications share the module:                                    *)
(*   Spec          one process running render requests, one after another  *)
(*   TokenSpec     concurrent callers of the cached token accessor         *)
(*   ClassifySpec  the classifiers applied to a bounded set of identifiers *)
(*   UrnSpec       the Express constructor and _extract_urn on bounded urls*)
(*   ExpressSpec   load and aload of the Express loader against one server *)
(*   MineSpec      extract_text_models on bounded document models          *)
(*   OcrSpec       the page-image loop of the share-link loader            *)
(*   AcroSpec      AdobeAcrobatLoader.load with its temporary file         *)
(*   IngestSpec    one ingestion call: classify, construct, load           *)
(*   TripSpec      template.render followed by _extract_enhanced_content   *)
(*   DrawSpec      Engine 3's _add_formatted_text_to_pdf on one page       *)
(*   AppSpec       two sessions of the Streamlit app and their files       *)
(***************************************************************************)
EXTENDS Integers, Sequences, FiniteSets, TLC

VARIABLES
    \* ---- the render request (src/agents/cv_enhancement_agent.py) ----
    rpc,          \* position of the request in process_cv_enhancement
    req,          \* number of the current request (0: none started yet)
    genPdf,       \* state["generate_pdf"]
    cvContent,    \* state["cv_content"]
    enhanced,     \* state["enhanced_content"]
    htmlContent,  \* the local html_content of _generate_output_node
    htmlFile,     \* the file at output_path.with_suffix(".html")
    pdfFile,      \* the file at output_path.with_suffix(".pdf")
    res,          \* outcome of each PDF engine in the current request
    calls,        \* the steps of the output node invoked so far, in order
    pdfGenerated, \* return value of _generate_pdf_with_fallbacks
    err,          \* the exception the request ended with
    log,          \* the log lines of the PDF chain in this request
    \* ---- the token cache (src/lib/utils.py) ----
    now,          \* the cache's timer (time.monotonic), in seconds
    cache,        \* the TTLCache: a set of links [token, expires]
    fetches,      \* requests sent to the token endpoint so far
    issued,       \* tokens returned by fetches answered 200
    cpc,          \* position of each caller
    held,         \* the token a caller's own fetch produced
    cret,         \* the token get_access_token_from_copilot returned
    hit,          \* whether the caller's call was served from the cache
    \* ---- the classifiers ----
    ident,        \* the identifier string, a sequence of characters
    detRes,       \* result of core.document_loader.detect_file_type
    agentRes,     \* result of CVEnhancementAgent._detect_file_type
    \* ---- AdobeExpressLoader: constructor and _extract_urn ----
    url,          \* the url given to the constructor, a character sequence
    upc,          \* "new", "accepted", "rejected", "extracted", "failed"
    urn,          \* the value _extract_urn returned
    \* ---- AdobeExpressLoader: load and aload against one server ----
    srv,          \* the server: its answer to each kind of request
    lpc,          \* position of each variant: "token", "doc", "retry", "done"
    ltoken,       \* the token argument of the current _fetch_document call
    lphase,       \* "try": inside the try block; "fallback": in its handler
    lreqs,        \* the requests each variant has sent, with their answers
    lres,         \* what each variant returned or raised
    \* ---- AdobeExpressLoader.extract_text_models ----
    docModel,     \* the parsed docModel, a sequence of nodes
    mpc,          \* "new" or "mined"
    texts,        \* the list extract_text_models returned
    \* ---- the share-link loader, strategy A (page-image OCR) ----
    pages,        \* the server: what it answers for page 0, 1, ...
    opc,          \* "fetching", "ocr" or "done"
    asked,        \* the page numbers requested so far, in order
    fetched,      \* the page images kept so far
    seen,         \* how many of the kept images have been through OCR
    units,        \* the ContentUnits produced so far
    \* ---- AdobeAcrobatLoader.load (HTML scrape and download) ----
    acroUrl,      \* the url given to the constructor
    acroPc,       \* position of load: the step to run next
    acroCalls,    \* the steps called so far, in order, with their outcome
    pdfContent,   \* the bytes downloaded: "none", "pdf" or "other"
    tmpFile,      \* the temporary file: "none", "exists" or "deleted"
    tmpBound,     \* whether temp_file holds the file object
    pathBound,    \* whether temp_file_path has been assigned
    exc,          \* the exception in flight in _load_pdf_content, newest first
    docs,         \* the number of documents PyPDFLoader returned
    acroRes,      \* what load returned or raised
    \* ---- one ingestion call: classify, then load_document ----
    ingPc,        \* "classify", "construct", "load", "done", "failed"
    ingBy,        \* the classifier used: "core" or "agent"
    ingType,      \* the FileType the classifier returned
    ingErr,       \* the exception the call ended with
    \* ---- the content round trip: template.render, then extraction ----
    markup,       \* the markup string handed to the template
    safe,         \* whether the template marks cv_content as safe
    tripPc,       \* "render", "extract", "done"
    tripHtml,     \* the rendered HTML
    tripOut,      \* what _extract_enhanced_content returned
    \* ---- Engine 3's drawing: _add_formatted_text_to_pdf ----
    pageHeight,   \* page.rect.height, in points
    textLines,    \* text_content.split('\n'), each line its words and case
    drawPc,       \* "start", "lines", "returned"
    lineNo,       \* how many lines the loop has taken
    yPosition,    \* y_position, in tenths of a point
    marks,        \* the lines drawn and the lines dropped, in order
    \* ---- the Streamlit app: two sessions, one working directory ----
    disk,         \* enhanced_resume.html / .pdf: the session that wrote it
    artifacts,    \* the files 'Regenerate PDF with Changes' has written
    processed,    \* st.session_state.processed, by session
    resultPath,   \* st.session_state.result_path, by session
    notice,       \* the last message the session was shown
    offered,      \* whose files the results view last read, by session
    cleanups,     \* the cleanup threads that are still asleep
    cleaned,      \* how many cleanup threads have run
    regens        \* how many times the regenerate button was pressed

renderVars == <<rpc, req, genPdf, cvContent, enhanced, htmlContent, htmlFile,
                pdfFile, res, calls, pdfGenerated, err, log>>
tokenVars == <<now, cache, fetches, issued, cpc, held, cret, hit>>
classVars == <<ident, detRes, agentRes>>
urnVars == <<url, upc, urn>>
expressVars == <<srv, lpc, ltoken, lphase, lreqs, lres>>
mineVars == <<docModel, mpc, texts>>
ocrVars == <<pages, opc, asked, fetched, seen, units>>
acroVars == <<acroUrl, acroPc, acroCalls, pdfContent, tmpFile, tmpBound,
              pathBound, exc, docs, acroRes>>
loaderVars == <<urnVars, expressVars, mineVars, ocrVars, acroVars>>
ingestVars == <<ingPc, ingBy, ingType, ingErr>>
tripVars == <<markup, safe, tripPc, tripHtml, tripOut>>
drawVars == <<pageHeight, textLines, drawPc, lineNo, yPosition, marks>>
appVars == <<disk, artifacts, processed, resultPath, notice, offered,
             cleanups, cleaned, regens>>
moreVars == <<ingestVars, tripVars, drawVars, appVars>>
vars == <<renderVars, tokenVars, classVars, loaderVars, moreVars>>

\* What each specification leaves alone.
notRender == <<tokenVars, classVars, loaderVars, moreVars>>
notToken == <<renderVars, classVars, loaderVars, moreVars>>
notClass == <<renderVars, tokenVars, loaderVars, moreVars>>
notLoader == <<renderVars, tokenVars, classVars, moreVars>>
notMore == <<renderVars, tokenVars, loaderVars>>
notUrn == <<notLoader, expressVars, mineVars, ocrVars, acroVars>>
notExpress == <<notLoader, urnVars, mineVars, ocrVars, acroVars>>
notMine == <<notLoader, urnVars, expressVars, ocrVars, acroVars>>
notOcr == <<notLoader, urnVars, expressVars, mineVars, acroVars>>
notAcro == <<notLoader, urnVars, expressVars, mineVars, ocrVars>>
notIngest == <<notMore, classVars, tripVars, drawVars, appVars>>
notTrip == <<notMore, classVars, ingestVars, drawVars, appVars>>
notDraw == <<notMore, classVars, ingestVars, tripVars, appVars>>
notApp == <<notMore, classVars, ingestVars, tripVars, drawVars>>

(***************************************************************************)
(* Bounds of the model.                                                    *)
(***************************************************************************)
MaxRequests == 2
MaxChunks == 2
MaxFetches == 2
MaxTime == 800
TickStep == 200
NumCallers == 2
MaxTail == 2
MaxNodes == 3
MaxPages == 3
MaxDocs == 2

(***************************************************************************)
(* The render request.                                                     *)
(***************************************************************************)
Engines == <<"e1", "e2", "e3">>
EngineSet == {"e1", "e2", "e3"}

\* Texts, by what the code asks of them: "" is falsy, " " is truthy but
\* strips to "", the others are ordinary markup.
CvTexts == {"", "cv text"}
ModelReplies == {"", " ", "# Name"}
Strip(s) == IF s = " " THEN "" ELSE s

NoHtml == [req |-> 0, content |-> <<>>]
NoPdf == [req |-> 0, by |-> "none", complete |-> FALSE]
NoRes == [e \in EngineSet |-> "none"]

\* templates/resume_template.md rendered with cv_content: fixed markup
\* around the content, which sits in the <div class="content"> that
\* _extract_enhanced_content looks for.
RenderTemplate(content) ==
    <<"<html><body><div class=\"content\">", content, "</div></body></html>">>

Raised(e) == res[e] \in {"raised", "raised_open"}

\* What the chain writes to the log when a method raises: a warning naming
\* the method, and after the last one the error that all of them failed.
FailureMessage(e) ==
    IF e = "e1" THEN "markdown + xhtml2pdf generation failed"
    ELSE IF e = "e2" THEN "reportlab failed"
    ELSE "PyMuPDF failed"
AllFailedMessage == "All PDF generation methods failed"

LogFailure(e, outcome) ==
    IF outcome \in {"raised", "raised_open"}
    THEN IF e = "e3"
         THEN log \o <<FailureMessage(e), AllFailedMessage>>
         ELSE Append(log, FailureMessage(e))
    ELSE log

RenderInit ==
    /\ rpc = "idle"
    /\ req = 0
    /\ genPdf = FALSE
    /\ cvContent = ""
    /\ enhanced = ""
    /\ htmlContent = <<>>
    /\ htmlFile = NoHtml
    /\ pdfFile = NoPdf
    /\ res = NoRes
    /\ calls = <<>>
    /\ pdfGenerated = "none"
    /\ err = "none"
    /\ log = <<>>

\* process_cv_enhancement builds the initial state and invokes the workflow.
\* The app calls it again and again with the same output_path, so the files
\* of an earlier request are still there.
StartRequest ==
    /\ rpc \in {"idle", "done", "failed"}
    /\ req < MaxRequests
    /\ \E g \in BOOLEAN : genPdf' = g
    /\ req' = req + 1
    /\ rpc' = "load"
    /\ cvContent' = ""
    /\ enhanced' = ""
    /\ htmlContent' = <<>>
    /\ res' = NoRes
    /\ calls' = <<>>
    /\ pdfGenerated' = "none"
    /\ err' = "none"
    /\ log' = <<>>
    /\ UNCHANGED <<htmlFile, pdfFile, notRender>>

\* _load_document_node: classify, load, join; any exception is re-raised.
LoadDocumentNode ==
    /\ rpc = "load"
    /\ \/ \E t \in CvTexts : cvContent' = t /\ rpc' = "enhance" /\ err' = err
       \/ cvContent' = cvContent /\ rpc' = "failed" /\ err' = "load"
    /\ calls' = Append(calls, "load")
    /\ UNCHANGED <<req, genPdf, enhanced, htmlContent, htmlFile, pdfFile, res,
                   pdfGenerated, log, notRender>>

\* EnhanceContentNode with a fault: an empty reply is passed on.
EnhanceContentNode_AcceptsEmpty ==
    /\ rpc = "enhance"
    /\ \/ \E r \in ModelReplies :
            enhanced' = r /\ rpc' = "render" /\ err' = err
       \/ enhanced' = enhanced /\ rpc' = "failed" /\ err' = "enhance"
    /\ calls' = Append(calls, "enhance")
    /\ UNCHANGED <<req, genPdf, cvContent, htmlContent, htmlFile, pdfFile, res,
                   pdfGenerated, log, notRender>>

\* _enhance_content_node: one chat completion; an empty reply raises
\* ValueError, any exception is re-raised.
EnhanceContentNode ==
    /\ rpc = "enhance"
    /\ \/ \E r \in ModelReplies :
            IF r = ""
            THEN enhanced' = enhanced /\ rpc' = "failed" /\ err' = "enhance"
            ELSE enhanced' = r /\ rpc' = "render" /\ err' = err
       \/ enhanced' = enhanced /\ rpc' = "failed" /\ err' = "enhance"
    /\ calls' = Append(calls, "enhance")
    /\ UNCHANGED <<req, genPdf, cvContent, htmlContent, htmlFile, pdfFile, res,
                   pdfGenerated, log, notRender>>

\* _generate_output_node up to template.render: pick the content (the CV
\* text when the enhanced text strips to nothing) and render the template;
\* get_template or render may raise.
RenderHtml ==
    /\ rpc = "render"
    /\ LET content == IF Strip(enhanced) = "" THEN cvContent ELSE enhanced
       IN \/ /\ htmlContent' = RenderTemplate(content)
             /\ rpc' = "write_html"
             /\ err' = err
          \/ /\ htmlContent' = htmlContent
             /\ rpc' = "failed"
             /\ err' = "template"
    /\ calls' = Append(calls, "render")
    /\ UNCHANGED <<req, genPdf, cvContent, enhanced, htmlFile, pdfFile, res,
                   pdfGenerated, log, notRender>>

\* WriteHtml with a fault: ignores generate_pdf.
WriteHtml_AlwaysPdf ==
    /\ rpc = "write_html"
    /\ \/ /\ htmlFile' = [req |-> req, content |-> htmlContent]
          /\ rpc' = "e1"
          /\ err' = err
       \/ /\ htmlFile' \in {htmlFile, [req |-> req, content |-> <<>>]}
          /\ rpc' = "failed"
          /\ err' = "html_write"
    /\ calls' = Append(calls, "write_html")
    /\ UNCHANGED <<req, genPdf, cvContent, enhanced, htmlContent, pdfFile, res,
                   pdfGenerated, log, notRender>>

\* html_path.write_text(html_content), then the branch on generate_pdf.
\* A failed write leaves the old file (open failed) or a truncated one.
WriteHtml ==
    /\ rpc = "write_html"
    /\ \/ /\ htmlFile' = [req |-> req, content |-> htmlContent]
          /\ rpc' = IF genPdf THEN "e1" ELSE "output_return"
          /\ err' = err
       \/ /\ htmlFile' \in {htmlFile, [req |-> req, content |-> <<>>]}
          /\ rpc' = "failed"
          /\ err' = "html_write"
    /\ calls' = Append(calls, "write_html")
    /\ UNCHANGED <<req, genPdf, cvContent, enhanced, htmlContent, pdfFile, res,
                   pdfGenerated, log, notRender>>

EngineFrame == UNCHANGED <<req, genPdf, cvContent, enhanced, htmlContent,
                           htmlFile, err, notRender>>

\* Engine1 with a fault: goes on to Method 2 after a success.
Engine1_FallsThrough ==
    /\ rpc = "e1"
    /\ calls' = Append(calls, "e1")
    /\ \/ /\ res' = [res EXCEPT !["e1"] = "raised"]
          /\ pdfFile' = pdfFile
          /\ pdfGenerated' = pdfGenerated
       \/ /\ res' = [res EXCEPT !["e1"] = "raised_open"]
          /\ pdfFile' = [req |-> req, by |-> "e1", complete |-> FALSE]
          /\ pdfGenerated' = pdfGenerated
       \/ /\ res' = [res EXCEPT !["e1"] = "ok"]
          /\ pdfFile' = [req |-> req, by |-> "e1", complete |-> TRUE]
          /\ pdfGenerated' = "True"
    /\ rpc' = "e2"
    /\ log' = LogFailure("e1", res'["e1"])
    /\ EngineFrame

\* Method 1, markdown + xhtml2pdf.  It raises before the file is opened
\* (an import, _html_to_markdown, markdown.markdown, open itself), or inside
\* the with block, after open(pdf_path, "wb") has created or truncated the
\* file; otherwise it returns True.
Engine1 ==
    /\ rpc = "e1"
    /\ calls' = Append(calls, "e1")
    /\ \/ /\ res' = [res EXCEPT !["e1"] = "raised"]
          /\ pdfFile' = pdfFile
          /\ pdfGenerated' = pdfGenerated
          /\ rpc' = "e2"
       \/ /\ res' = [res EXCEPT !["e1"] = "raised_open"]
          /\ pdfFile' = [req |-> req, by |-> "e1", complete |-> FALSE]
          /\ pdfGenerated' = pdfGenerated
          /\ rpc' = "e2"
       \/ /\ res' = [res EXCEPT !["e1"] = "ok"]
          /\ pdfFile' = [req |-> req, by |-> "e1", complete |-> TRUE]
          /\ pdfGenerated' = "True"
          /\ rpc' = "output_return"
    /\ log' = LogFailure("e1", res'["e1"])
    /\ EngineFrame

\* Engine2 with a fault: a failure is not logged.
Engine2_Silent ==
    /\ rpc = "e2"
    /\ calls' = Append(calls, "e2")
    /\ \/ /\ res' = [res EXCEPT !["e2"] = "raised"]
          /\ pdfFile' = pdfFile
          /\ pdfGenerated' = pdfGenerated
          /\ rpc' = "e3"
       \/ /\ res' = [res EXCEPT !["e2"] = "ok"]
          /\ pdfFile' = [req |-> req, by |-> "e2", complete |-> TRUE]
          /\ pdfGenerated' = "True"
          /\ rpc' = "output_return"
    /\ log' = log
    /\ EngineFrame

\* Method 2, reportlab.  SimpleDocTemplate writes pdf_path in doc.build, its
\* last statement; what raises (an import, _extract_enhanced_content, a
\* Paragraph, the layout) does so with the file untouched.
Engine2 ==
    /\ rpc = "e2"
    /\ calls' = Append(calls, "e2")
    /\ \/ /\ res' = [res EXCEPT !["e2"] = "raised"]
          /\ pdfFile' = pdfFile
          /\ pdfGenerated' = pdfGenerated
          /\ rpc' = "e3"
       \/ /\ res' = [res EXCEPT !["e2"] = "ok"]
          /\ pdfFile' = [req |-> req, by |-> "e2", complete |-> TRUE]
          /\ pdfGenerated' = "True"
          /\ rpc' = "output_return"
    /\ log' = LogFailure("e2", res'["e2"])
    /\ EngineFrame

\* Engine3 with a fault: never saves the document.
Engine3_NoSave ==
    /\ rpc = "e3"
    /\ calls' = Append(calls, "e3")
    /\ \/ /\ res' = [res EXCEPT !["e3"] = "raised"]
          /\ pdfGenerated' = "False"
       \/ /\ res' = [res EXCEPT !["e3"] = "ok"]
          /\ pdfGenerated' = "True"
    /\ pdfFile' = pdfFile
    /\ rpc' = "output_return"
    /\ log' = LogFailure("e3", res'["e3"])
    /\ EngineFrame

\* Method 3, PyMuPDF: one page, _html_to_text, _add_formatted_text_to_pdf,
\* doc.save(str(pdf_path)).  When it raises too the chain logs "All PDF
\* generation methods failed" and returns False.
Engine3 ==
    /\ rpc = "e3"
    /\ calls' = Append(calls, "e3")
    /\ \/ /\ res' = [res EXCEPT !["e3"] = "raised"]
          /\ pdfFile' = pdfFile
          /\ pdfGenerated' = "False"
       \/ /\ res' = [res EXCEPT !["e3"] = "ok"]
          /\ pdfFile' = [req |-> req, by |-> "e3", complete |-> TRUE]
          /\ pdfGenerated' = "True"
    /\ rpc' = "output_return"
    /\ log' = LogFailure("e3", res'["e3"])
    /\ EngineFrame

\* OutputReturn with a fault: raises when the chain returned False.
OutputReturn_RaiseOnNoPdf ==
    /\ rpc = "output_return"
    /\ IF pdfGenerated = "False"
       THEN rpc' = "failed" /\ err' = "pdf"
       ELSE rpc' = "done" /\ err' = err
    /\ UNCHANGED <<req, genPdf, cvContent, enhanced, htmlContent, htmlFile,
                   pdfFile, res, calls, pdfGenerated, log, notRender>>

\* The end of _generate_output_node (it logs the PDF outcome and returns the
\* state) and of process_cv_enhancement (it returns the output path).
OutputReturn ==
    /\ rpc = "output_return"
    /\ rpc' = "done"
    /\ UNCHANGED <<req, genPdf, cvContent, enhanced, htmlContent, htmlFile,
                   pdfFile, res, calls, pdfGenerated, err, log,
                   notRender>>

RenderNext ==
    \/ StartRequest
    \/ LoadDocumentNode
    \/ EnhanceContentNode
    \/ RenderHtml
    \/ WriteHtml
    \/ Engine1
    \/ Engine2
    \/ Engine3
    \/ OutputReturn

(***************************************************************************)
(* The token cache: @cachetools.ttl_cache(maxsize=1, ttl=600) around       *)
(* get_access_token_from_copilot.  The decorator looks the key up under    *)
(* its lock, calls the function outside the lock on a miss, and stores     *)
(* the result under the lock with cache.setdefault, which prefers a value  *)
(* another caller stored in the meantime.  The function takes no           *)
(* arguments, so the cache has one key.                                    *)
(***************************************************************************)
TTL == 600
MaxSize == 1

Callers == 1..NumCallers
\* payload.get("token", "") of a 200 answer without a token.
EmptyToken == 0

\* Live with a fault: links never expire.
Live_NeverExpires(links, t) == links

\* TTLCache: a link is live while timer() < link.expires.
Live(links, t) == {l \in links : t < l.expires}

\* TTLCache.__setitem__: drop what has expired, make room (maxsize), link the
\* value with expires = timer() + ttl.
Stored(links, t, tok) ==
    LET live == Live(links, t)
        kept == IF Cardinality(live) >= MaxSize THEN {} ELSE live
    IN kept \cup {[token |-> tok, expires |-> t + TTL]}

TokenInit ==
    /\ now = 0
    /\ cache = {}
    /\ fetches = 0
    /\ issued = {}
    /\ cpc = [c \in Callers |-> "idle"]
    /\ held = [c \in Callers |-> EmptyToken]
    /\ cret = [c \in Callers |-> EmptyToken]
    /\ hit = [c \in Callers |-> FALSE]

\* Time passes.
Tick ==
    /\ now + TickStep <= MaxTime
    /\ now' = now + TickStep
    /\ UNCHANGED <<cache, fetches, issued, cpc, held, cret, hit, notToken>>

\* _setup_openai_client calls get_access_token_from_copilot(): the wrapper's
\* lookup.  A live link is a hit and the call returns its token; otherwise
\* the function body runs and sends its request to the token endpoint.
Lookup(c) ==
    /\ cpc[c] = "idle"
    /\ LET live == Live(cache, now)
       IN IF live # {}
          THEN /\ \E l \in live : cret' = [cret EXCEPT ![c] = l.token]
               /\ cpc' = [cpc EXCEPT ![c] = "have_token"]
               /\ hit' = [hit EXCEPT ![c] = TRUE]
               /\ fetches' = fetches
          ELSE /\ fetches < MaxFetches
               /\ cret' = cret
               /\ cpc' = [cpc EXCEPT ![c] = "fetching"]
               /\ hit' = [hit EXCEPT ![c] = FALSE]
               /\ fetches' = fetches + 1
    /\ UNCHANGED <<now, cache, issued, held, notToken>>

\* FetchAnswer with a fault: the status of the answer is not checked.
FetchAnswer_NoStatusCheck(c) ==
    /\ cpc[c] = "fetching"
    /\ \/ /\ held' = [held EXCEPT ![c] = fetches]
          /\ issued' = issued \cup {fetches}
       \/ /\ held' = [held EXCEPT ![c] = EmptyToken]
          /\ issued' = issued \cup {EmptyToken}
       \/ /\ held' = [held EXCEPT ![c] = EmptyToken]
          /\ issued' = issued
    /\ cpc' = [cpc EXCEPT ![c] = "fetched"]
    /\ UNCHANGED <<now, cache, fetches, cret, hit, notToken>>

\* The token endpoint answers: 200 with a token, 200 without one, or another
\* status, for which the function raises.
FetchAnswer(c) ==
    /\ cpc[c] = "fetching"
    /\ \/ /\ held' = [held EXCEPT ![c] = fetches]
          /\ issued' = issued \cup {fetches}
          /\ cpc' = [cpc EXCEPT ![c] = "fetched"]
       \/ /\ held' = [held EXCEPT ![c] = EmptyToken]
          /\ issued' = issued \cup {EmptyToken}
          /\ cpc' = [cpc EXCEPT ![c] = "fetched"]
       \/ /\ held' = held
          /\ issued' = issued
          /\ cpc' = [cpc EXCEPT ![c] = "raised"]
    /\ UNCHANGED <<now, cache, fetches, cret, hit, notToken>>

\* The wrapper stores the result: cache.setdefault(k, v).
Store(c) ==
    /\ cpc[c] = "fetched"
    /\ LET live == Live(cache, now)
       IN IF live # {}
          THEN /\ \E l \in live : cret' = [cret EXCEPT ![c] = l.token]
               /\ cache' = cache
          ELSE /\ cret' = [cret EXCEPT ![c] = held[c]]
               /\ cache' = Stored(cache, now, held[c])
    /\ cpc' = [cpc EXCEPT ![c] = "have_token"]
    /\ UNCHANGED <<now, fetches, issued, held, hit, notToken>>

\* _enhance_content_node: client.chat.completions.create with the token as
\* api_key.  The server accepts it or reports 401; the exception is logged
\* and re-raised, and nothing touches the cache.
ChatCompletion(c) ==
    /\ cpc[c] = "have_token"
    /\ \/ cpc' = [cpc EXCEPT ![c] = "done"]
       \/ cpc' = [cpc EXCEPT ![c] = "rejected_401"]
    /\ UNCHANGED <<now, cache, fetches, issued, held, cret, hit, notToken>>

\* The next request of the same session.
NextCall(c) ==
    /\ cpc[c] \in {"done", "rejected_401", "raised"}
    /\ cpc' = [cpc EXCEPT ![c] = "idle"]
    /\ held' = [held EXCEPT ![c] = EmptyToken]
    /\ cret' = [cret EXCEPT ![c] = EmptyToken]
    /\ hit' = [hit EXCEPT ![c] = FALSE]
    /\ UNCHANGED <<now, cache, fetches, issued, notToken>>

TokenNext ==
    \/ Tick
    \/ \E c \in Callers : Lookup(c)
    \/ \E c \in Callers : FetchAnswer(c)
    \/ \E c \in Callers : Store(c)
    \/ \E c \in Callers : ChatCompletion(c)
    \/ \E c \in Callers : NextCall(c)

(***************************************************************************)
(* The classifiers.  A string is a sequence of characters; lower(), the    *)
(* "in" test and endswith() are computed on the characters.                *)
(***************************************************************************)
UpperCase ==
    <<"A", "B", "C", "D", "E", "F", "G", "H", "I", "J", "K", "L", "M", "N",
      "O", "P", "Q", "R", "S", "T", "U", "V", "W", "X", "Y", "Z">>
LowerCase ==
    <<"a", "b", "c", "d", "e", "f", "g", "h", "i", "j", "k", "l", "m", "n",
      "o", "p", "q", "r", "s", "t", "u", "v", "w", "x", "y", "z">>

LowerChar(ch) ==
    IF \E i \in 1..Len(UpperCase) : UpperCase[i] = ch
    THEN LowerCase[CHOOSE i \in 1..Len(UpperCase) : UpperCase[i] = ch]
    ELSE ch

\* str.lower()
Lower(s) == [i \in 1..Len(s) |-> LowerChar(s[i])]

\* m in s
Contains(s, m) ==
    \E i \in 0..(Len(s) - Len(m)) : SubSeq(s, i + 1, i + Len(m)) = m

\* s.endswith(m)
EndsWith(s, m) ==
    /\ Len(s) >= Len(m)
    /\ SubSeq(s, Len(s) - Len(m) + 1, Len(s)) = m

\* The string literals of the two classifiers, as written in the source.
ExpressHost ==
    <<"n", "e", "w", ".", "e", "x", "p", "r", "e", "s", "s", ".", "a", "d",
      "o", "b", "e", ".", "c", "o", "m">>
AcrobatHost ==
    <<"a", "c", "r", "o", "b", "a", "t", ".", "a", "d", "o", "b", "e", ".",
      "c", "o", "m">>
UrnPrefix == <<"u", "r", "n", ":", "a", "a", "i", "d", ":", "s", "c", ":", "A", "P", ":">>
AdobeHost == <<"a", "d", "o", "b", "e", ".", "c", "o", "m">>
ExpressHostShort ==
    <<"e", "x", "p", "r", "e", "s", "s", ".", "a", "d", "o", "b", "e", ".",
      "c", "o", "m">>
ExtPdf == <<".", "p", "d", "f">>
ExtDocx == <<".", "d", "o", "c", "x">>
ExtDoc == <<".", "d", "o", "c">>
ExtTxt == <<".", "t", "x", "t">>
ExtMd == <<".", "m", "d">>

\* DetectFileType with a fault: the identifier is not lower-cased.
DetectFileType_NoLower(id) ==
    IF Contains(id, ExpressHost) THEN "adobe_express"
    ELSE IF Contains(id, AcrobatHost) \/ Contains(id, UrnPrefix)
    THEN "adobe_acrobat"
    ELSE IF EndsWith(id, ExtPdf) THEN "pdf"
    ELSE IF EndsWith(id, ExtDocx) \/ EndsWith(id, ExtDoc) THEN "docx"
    ELSE IF EndsWith(id, ExtTxt) THEN "txt"
    ELSE "ValueError"

\* core.document_loader.detect_file_type
DetectFileType(id) ==
    LET url_lower == Lower(id)
    IN IF Contains(url_lower, ExpressHost) THEN "adobe_express"
       ELSE IF Contains(url_lower, AcrobatHost) \/ Contains(url_lower, UrnPrefix)
       THEN "adobe_acrobat"
       ELSE IF EndsWith(url_lower, ExtPdf) THEN "pdf"
       ELSE IF EndsWith(url_lower, ExtDocx) \/ EndsWith(url_lower, ExtDoc)
       THEN "docx"
       ELSE IF EndsWith(url_lower, ExtTxt) THEN "txt"
       ELSE "ValueError"

\* CVEnhancementAgent._detect_file_type
AgentDetectFileType(id) ==
    LET path_lower == Lower(id)
    IN IF Contains(path_lower, AdobeHost) \/ Contains(path_lower, ExpressHostShort)
       THEN "adobe_express"
       ELSE IF EndsWith(path_lower, ExtPdf) THEN "pdf"
       ELSE IF EndsWith(path_lower, ExtDocx) THEN "docx"
       ELSE IF EndsWith(path_lower, ExtTxt) \/ EndsWith(path_lower, ExtMd)
       THEN "txt"
       ELSE "ValueError"

\* The identifiers tried: up to MaxChunks of these pieces, one after another.
Https == <<"h", "t", "t", "p", "s", ":", "/", "/">>
Slash == <<"/">>
MixedAcrobatHost ==
    <<"A", "c", "r", "o", "b", "a", "t", ".", "A", "d", "o", "b", "e", ".", "c", "o", "m">>
Name == <<"c", "v">>
UpperPdf == <<".", "P", "D", "F">>

Chunks ==
    { Https \o ExpressHost \o Slash,
      Https \o AcrobatHost \o Slash,
      Https \o MixedAcrobatHost \o Slash,
      AdobeHost \o Slash,
      UrnPrefix,
      Name,
      ExtPdf, UpperPdf, ExtDocx, ExtDoc, ExtTxt, ExtMd }

RECURSIVE Concat(_)
Concat(ss) == IF ss = <<>> THEN <<>> ELSE Head(ss) \o Concat(Tail(ss))

Identifiers ==
    {Concat(ss) : ss \in UNION {[1..n -> Chunks] : n \in 0..MaxChunks}}

ClassInit ==
    /\ ident \in Identifiers
    /\ detRes = "none"
    /\ agentRes = "none"

\* _load_document_node classifies with the agent's own method.
CallAgentDetectFileType ==
    /\ agentRes = "none"
    /\ agentRes' = AgentDetectFileType(ident)
    /\ UNCHANGED <<ident, detRes, notClass>>

\* Other callers classify with the module function.
CallDetectFileType ==
    /\ detRes = "none"
    /\ detRes' = DetectFileType(ident)
    /\ UNCHANGED <<ident, agentRes, notClass>>

ClassNext ==
    \/ CallAgentDetectFileType
    \/ CallDetectFileType

(***************************************************************************)
(* AdobeExpressLoader: the constructor's validation and _extract_urn,      *)
(* computed on the characters of the url.                                  *)
(***************************************************************************)
\* s.startswith(m)
StartsWith(s, m) ==
    /\ Len(s) >= Len(m)
    /\ SubSeq(s, 1, Len(m)) = m

\* Where the first occurrence of m in s starts; 0 when there is none.
FirstAt(s, m) ==
    IF Contains(s, m)
    THEN CHOOSE i \in 1..(Len(s) - Len(m) + 1) :
            /\ SubSeq(s, i, i + Len(m) - 1) = m
            /\ \A j \in 1..(i - 1) : SubSeq(s, j, j + Len(m) - 1) # m
    ELSE 0

\* s.split(sep): the pieces between the occurrences of sep, left to right.
RECURSIVE Split(_, _)
Split(s, sep) ==
    LET i == FirstAt(s, sep)
    IN IF i = 0 THEN <<s>>
       ELSE <<SubSeq(s, 1, i - 1)>>
            \o Split(SubSeq(s, i + Len(sep), Len(s)), sep)

QuestionMark == <<"?">>

\* self.url.split(URN_PREFIX)[1].split("?")[0], for a url that contains the
\* prefix.
ExtractUrn(u) == Split(Split(u, UrnPrefix)[2], QuestionMark)[1]

\* The check of __init__: a string that starts with "https://" and
\* contains the prefix, in this letter case.
ExpressAccepts(u) == StartsWith(u, Https) /\ Contains(u, UrnPrefix)

\* The urls tried: a head, the prefix in one of three forms, and a tail of
\* at most MaxTail pieces.
IdPath == <<"/", "i", "d", "/">>
Xyz123 == <<"X", "Y", "Z", "1", "2", "3">>
QueryPart == <<"?", "q", "u", "e", "r", "y">>
UrnHeads == {Https \o ExpressHost \o IdPath, ExpressHost \o IdPath}
UrnMiddles == {UrnPrefix, Lower(UrnPrefix), <<>>}
TailPieces == {Xyz123, Slash, QueryPart, UrnPrefix}
UrnTails ==
    UNION {[1..n -> TailPieces] : n \in 0..MaxTail}
ExpressUrls ==
    {h \o m \o Concat(t) : h \in UrnHeads, m \in UrnMiddles, t \in UrnTails}

UrnIdle ==
    /\ url = <<>>
    /\ upc = "idle"
    /\ urn = <<>>

UrnInit ==
    /\ url \in ExpressUrls
    /\ upc = "new"
    /\ urn = <<>>

\* AdobeExpressLoader.__init__
ExpressConstruct ==
    /\ upc = "new"
    /\ upc' = IF ExpressAccepts(url) THEN "accepted" ELSE "rejected"
    /\ UNCHANGED <<url, urn, notUrn>>

\* The call of _extract_urn that opens load, lazy_load and aload.
CallExtractUrn ==
    /\ upc = "accepted"
    /\ IF Contains(url, UrnPrefix)
       THEN urn' = ExtractUrn(url) /\ upc' = "extracted"
       ELSE urn' = urn /\ upc' = "failed"
    /\ UNCHANGED <<url, notUrn>>

UrnNext == ExpressConstruct \/ CallExtractUrn

(***************************************************************************)
(* AdobeExpressLoader.load and .aload.  Both variants run against the same *)
(* server, whose answer depends on the endpoint and on the Authorization   *)
(* header of the request.  One action is one request with its handling.    *)
(***************************************************************************)
Variants == {"load", "aload"}

\* The Authorization header of a document request: "Bearer <token>",
\* "Bearer " with nothing after it, or no header.
HeaderKinds == {"token", "empty", "none"}

\* Answers of the token endpoint: 200 with an access_token, or an error
\* status.
TokenResponses == {"200", "500"}

\* Answers of the document endpoint: an error status, 200 with a docModel
\* (two different ones), or 200 with a docModel json.loads cannot read.
DocResponses == {"401", "500", "docA", "docB", "bad"}
ErrorStatus == {"401", "500"}

Unauthorized == "401"
NoToken == ""
AccessToken == "tok"

NoResult == [status |-> "none", texts |-> "none", from |-> 0, error |-> "none"]

ExpressIdle ==
    /\ srv = [token |-> "200", doc |-> [h \in HeaderKinds |-> "401"]]
    /\ lpc = [v \in Variants |-> "idle"]
    /\ ltoken = [v \in Variants |-> NoToken]
    /\ lphase = [v \in Variants |-> "try"]
    /\ lreqs = [v \in Variants |-> <<>>]
    /\ lres = [v \in Variants |-> NoResult]

ExpressInit ==
    /\ srv \in [token : TokenResponses, doc : [HeaderKinds -> DocResponses]]
    /\ lpc = [v \in Variants |-> "token"]
    /\ ltoken = [v \in Variants |-> NoToken]
    /\ lphase = [v \in Variants |-> "try"]
    /\ lreqs = [v \in Variants |-> <<>>]
    /\ lres = [v \in Variants |-> NoResult]

\* The request is sent and answered.
Sent(v, endpoint, header, answer) ==
    lreqs' = [lreqs EXCEPT ![v] =
                 Append(@, [to |-> endpoint, hdr |-> header, ans |-> answer])]

\* An exception leaves _fetch_document or the token call.  Inside the try
\* block of load/aload the handler calls the fetch again with token "";
\* inside the handler it leaves the loader.
Raise(v, e) ==
    IF lphase[v] = "try"
    THEN /\ lphase' = [lphase EXCEPT ![v] = "fallback"]
         /\ ltoken' = [ltoken EXCEPT ![v] = NoToken]
         /\ lpc' = [lpc EXCEPT ![v] = "doc"]
         /\ lres' = lres
    ELSE /\ lpc' = [lpc EXCEPT ![v] = "done"]
         /\ lres' = [lres EXCEPT ![v] = [status |-> "raised", texts |-> "none",
                                         from |-> 0, error |-> e]]
         /\ UNCHANGED <<lphase, ltoken>>

\* The texts mined from the answer are made into Documents and returned.
Return(v, answer) ==
    /\ lpc' = [lpc EXCEPT ![v] = "done"]
    /\ lres' = [lres EXCEPT ![v] = [status |-> "ok", texts |-> answer,
                                    from |-> Len(lreqs[v]) + 1,
                                    error |-> "none"]]
    /\ UNCHANGED <<lphase, ltoken>>

\* raise_for_status(), response.json(), json.loads(data.get("docModel")) and
\* extract_text_models on the last answer of a fetch.
Finish(v, answer) ==
    IF answer \in ErrorStatus THEN Raise(v, "HTTPError")
    ELSE IF answer = "bad" THEN Raise(v, "TypeError")
    ELSE Return(v, answer)

\* _get_oauth_token / _aget_oauth_token, at the head of the try block.
GetOauthToken(v) ==
    /\ lpc[v] = "token"
    /\ Sent(v, "token", "none", srv.token)
    /\ IF srv.token = "200"
       THEN /\ ltoken' = [ltoken EXCEPT ![v] = AccessToken]
            /\ lpc' = [lpc EXCEPT ![v] = "doc"]
            /\ UNCHANGED <<lphase, lres>>
       ELSE Raise(v, "HTTPError")
    /\ UNCHANGED <<srv, notExpress>>

\* _fetch_document: headers = {"Authorization": f"Bearer {token}"}, whatever
\* the token.
SyncHeader(token) == IF token = NoToken THEN "empty" ELSE "token"

\* _afetch_document: the header is set only if token is truthy.
AsyncHeader(token) == IF token = NoToken THEN "none" ELSE "token"

\* _fetch_document, first request: a 401 leads to the retry, whatever the
\* token.
FetchDocument ==
    LET h == SyncHeader(ltoken["load"])
        answer == srv.doc[h]
    IN /\ lpc["load"] = "doc"
       /\ Sent("load", "doc", h, answer)
       /\ IF answer = Unauthorized
          THEN /\ lpc' = [lpc EXCEPT !["load"] = "retry"]
               /\ UNCHANGED <<lphase, ltoken, lres>>
          ELSE Finish("load", answer)
       /\ UNCHANGED <<srv, notExpress>>

\* _fetch_document, the request repeated without headers.
FetchDocumentRetry ==
    LET answer == srv.doc["none"]
    IN /\ lpc["load"] = "retry"
       /\ Sent("load", "doc", "none", answer)
       /\ Finish("load", answer)
       /\ UNCHANGED <<srv, notExpress>>

\* _afetch_document, first request: a 401 leads to the retry only if a
\* token was given.
AFetchDocument ==
    LET h == AsyncHeader(ltoken["aload"])
        answer == srv.doc[h]
    IN /\ lpc["aload"] = "doc"
       /\ Sent("aload", "doc", h, answer)
       /\ IF answer = Unauthorized /\ ltoken["aload"] # NoToken
          THEN /\ lpc' = [lpc EXCEPT !["aload"] = "retry"]
               /\ UNCHANGED <<lphase, ltoken, lres>>
          ELSE Finish("aload", answer)
       /\ UNCHANGED <<srv, notExpress>>

\* _afetch_document, the request repeated without headers: the branch
\* reads the body into data and never assigns doc_model, which the return
\* statement then reads.
AFetchDocumentRetry ==
    LET answer == srv.doc["none"]
    IN /\ lpc["aload"] = "retry"
       /\ Sent("aload", "doc", "none", answer)
       /\ IF answer \in ErrorStatus
          THEN Raise("aload", "ClientResponseError")
          ELSE Raise("aload", "UnboundLocalError")
       /\ UNCHANGED <<srv, notExpress>>

ExpressNext ==
    \/ \E v \in Variants : GetOauthToken(v)
    \/ FetchDocument
    \/ FetchDocumentRetry
    \/ AFetchDocument
    \/ AFetchDocumentRetry

(***************************************************************************)
(* AdobeExpressLoader.extract_text_models.  A docModel is a sequence of    *)
(* nodes: node 1 is the root, every other node is a value held by an       *)
(* earlier node (a mapping or a list), and the values of one parent are    *)
(* iterated in the order of their numbers.  A mapping node records what    *)
(* its "TextModel" entry is; the text of a TextModel is named by the       *)
(* number of the mapping that holds it.  The TextModel mapping itself      *)
(* holds only scalars.                                                     *)
(***************************************************************************)
Kinds == {"dict", "list", "scalar"}

\* v["TextModel"]: no such key, a value that is not a mapping, a mapping
\* whose "text" is missing or empty, a mapping with a non-empty "text".
TmKinds == {"absent", "scalar", "notext", "text"}

Node(p, k, t) == [parent |-> p, kind |-> k, tm |-> t]

WellFormed(d) ==
    /\ d[1].parent = 0
    /\ \A i \in 1..Len(d) : d[i].kind # "dict" => d[i].tm = "absent"
    /\ \A i \in 2..Len(d) :
          /\ d[i].parent \in 1..(i - 1)
          /\ d[d[i].parent].kind # "scalar"

DocsOfSize(n) ==
    {d \in [1..n -> [parent : 0..(n - 1), kind : Kinds, tm : TmKinds]] :
        WellFormed(d)}

\* Three TextModel nodes at depths 1, 2 and 3, beside an unrelated scalar.
ThreeDepths ==
    <<Node(0, "dict", "absent"), Node(1, "dict", "text"),
      Node(1, "scalar", "absent"), Node(2, "dict", "text"),
      Node(4, "dict", "text")>>

\* Two branches of different depth below the root.
TwoBranches ==
    <<Node(0, "dict", "absent"), Node(1, "dict", "text"),
      Node(1, "dict", "text"), Node(2, "dict", "text"),
      Node(3, "dict", "text"), Node(5, "dict", "text")>>

DocModels ==
    UNION {DocsOfSize(n) : n \in 1..MaxNodes} \cup {ThreeDepths, TwoBranches}

\* The values of current that are mappings, in iteration order.
DictValues(d, current) ==
    SelectSeq([i \in 1..Len(d) |-> i],
              LAMBDA i : d[i].parent = current /\ d[i].kind = "dict")

\* The texts appended while the items of one mapping are iterated.
Found(d, vs) == SelectSeq(vs, LAMBDA i : d[i].tm = "text")

\* The loop with a fault: the last element of the queue is taken.
RECURSIVE Walk_Stack(_, _, _)
Walk_Stack(d, queue, results) ==
    IF queue = <<>> THEN results
    ELSE LET current == queue[Len(queue)]
             rest == SubSeq(queue, 1, Len(queue) - 1)
             vs == IF d[current].kind = "dict" THEN DictValues(d, current)
                   ELSE <<>>
         IN Walk_Stack(d, rest \o vs, results \o Found(d, vs))

\* while queue: current = queue.pop(0); ...
RECURSIVE Walk(_, _, _)
Walk(d, queue, results) ==
    IF queue = <<>> THEN results
    ELSE LET current == Head(queue)
             vs == IF d[current].kind = "dict" THEN DictValues(d, current)
                   ELSE <<>>
         IN Walk(d, Tail(queue) \o vs, results \o Found(d, vs))

\* extract_text_models with a fault: depth first.
ExtractTextModels_Stack(d) == Walk_Stack(d, <<1>>, <<>>)

ExtractTextModels(d) == Walk(d, <<1>>, <<>>)

MineIdle ==
    /\ docModel = <<>>
    /\ mpc = "idle"
    /\ texts = <<>>

MineInit ==
    /\ docModel \in DocModels
    /\ mpc = "new"
    /\ texts = <<>>

CallExtractTextModels ==
    /\ mpc = "new"
    /\ texts' = ExtractTextModels(docModel)
    /\ mpc' = "mined"
    /\ UNCHANGED <<docModel, notMine>>

MineNext == CallExtractTextModels

(***************************************************************************)
(* The share-link loader, strategy A: page images are requested one by one *)
(* and put through OCR.  The server holds a number of pages; a page is an  *)
(* image whose OCR gives text ("text"), an image whose OCR gives nothing   *)
(* ("blank"), or a request that fails ("error"); a page number past the    *)
(* last page is answered 404.                                              *)
(***************************************************************************)
PageAnswers == {"text", "blank", "error"}
Images == {"text", "blank"}
NotFound == "404"

\* The answer to the request for page number n (counted from 0).
Rendition(n) == IF n < Len(pages) THEN pages[n + 1] ELSE NotFound

OcrIdle ==
    /\ pages = <<>>
    /\ opc = "idle"
    /\ asked = <<>>
    /\ fetched = <<>>
    /\ seen = 0
    /\ units = <<>>

OcrInit ==
    /\ pages \in UNION {[1..n -> PageAnswers] : n \in 0..MaxPages}
    /\ opc = "fetching"
    /\ asked = <<>>
    /\ fetched = <<>>
    /\ seen = 0
    /\ units = <<>>

\* RequestPage with a fault: an error other than 404 drops the pages kept.
RequestPage_DropsOnError ==
    LET n == Len(asked)
    IN /\ opc = "fetching"
       /\ asked' = Append(asked, n)
       /\ IF Rendition(n) \in Images
          THEN /\ fetched' = Append(fetched, n)
               /\ opc' = opc
          ELSE /\ fetched' = IF Rendition(n) = NotFound THEN fetched ELSE <<>>
               /\ opc' = "ocr"
       /\ UNCHANGED <<pages, seen, units, notOcr>>

\* One turn of the fetch loop: the next page is requested; an image is
\* kept, a 404 or any other error ends the loop with the pages kept so far.
RequestPage ==
    LET n == Len(asked)
    IN /\ opc = "fetching"
       /\ asked' = Append(asked, n)
       /\ IF Rendition(n) \in Images
          THEN /\ fetched' = Append(fetched, n)
               /\ opc' = opc
          ELSE /\ fetched' = fetched
               /\ opc' = "ocr"
       /\ UNCHANGED <<pages, seen, units, notOcr>>

\* OCR of the next kept image: a page with text gives one ContentUnit
\* tagged with its page_index, a page without text gives none.
RecognizePage ==
    /\ opc = "ocr"
    /\ seen < Len(fetched)
    /\ seen' = seen + 1
    /\ units' = IF pages[fetched[seen + 1] + 1] = "text"
                THEN Append(units, [page_index |-> fetched[seen + 1],
                                    text |-> fetched[seen + 1]])
                ELSE units
    /\ UNCHANGED <<pages, opc, asked, fetched, notOcr>>

\* The units are returned.
ReturnUnits ==
    /\ opc = "ocr"
    /\ seen = Len(fetched)
    /\ opc' = "done"
    /\ UNCHANGED <<pages, asked, fetched, seen, units, notOcr>>

OcrNext == RequestPage \/ RecognizePage \/ ReturnUnits

(***************************************************************************)
(* AdobeAcrobatLoader.load: fetch the share page, extract the download     *)
(* url, download the PDF, load it through a temporary file.  What the      *)
(* network, the disk and PyPDFLoader do is chosen in each step.            *)
(***************************************************************************)
Steps ==
    <<"_fetch_page_html", "_extract_pdf_url", "_download_pdf",
      "_load_pdf_content">>

\* How a step can end other than well.
HtmlFailures == {"RequestException", "EmptyResponse"}
ExtractFailures == {"NoDataElement", "NoData", "InvalidJson", "NoDownloadUrl"}
DownloadFailures == {"RequestException", "EmptyContent"}

NoAcroResult ==
    [status |-> "none", error |-> "none", chain |-> <<>>, docs |-> 0,
     source |-> <<>>]

\* The urls tried: a host with or without the scheme, and a path.
AcroHeads ==
    {Https \o AcrobatHost, Https \o MixedAcrobatHost, AcrobatHost,
     Https \o ExpressHost}
AcroPaths == {IdPath \o UrnPrefix \o Xyz123, Slash \o Name \o ExtPdf, <<>>}
AcroUrls == {h \o t : h \in AcroHeads, t \in AcroPaths}

\* The checks of __init__: "https://" first, then the host, in this letter
\* case.
AcrobatAccepts(u) == StartsWith(u, Https) /\ Contains(u, AcrobatHost)

AcroIdle ==
    /\ acroUrl = <<>>
    /\ acroPc = "idle"
    /\ acroCalls = <<>>
    /\ pdfContent = "none"
    /\ tmpFile = "none"
    /\ tmpBound = FALSE
    /\ pathBound = FALSE
    /\ exc = <<>>
    /\ docs = 0
    /\ acroRes = NoAcroResult

AcroInit ==
    /\ acroUrl \in AcroUrls
    /\ acroPc = "new"
    /\ acroCalls = <<>>
    /\ pdfContent = "none"
    /\ tmpFile = "none"
    /\ tmpBound = FALSE
    /\ pathBound = FALSE
    /\ exc = <<>>
    /\ docs = 0
    /\ acroRes = NoAcroResult

StepCalled(step, outcome) ==
    acroCalls' = Append(acroCalls, [step |-> step, outcome |-> outcome])

\* except Exception as e: raise ValueError(f"Failed to load ...: {e}")
LoadRaises(chain) ==
    /\ acroPc' = "done"
    /\ acroRes' = [status |-> "raised", error |-> "ValueError",
                   chain |-> chain, docs |-> 0, source |-> <<>>]

\* AdobeAcrobatLoader.__init__
AcrobatConstruct ==
    /\ acroPc = "new"
    /\ acroPc' = IF AcrobatAccepts(acroUrl) THEN "html" ELSE "rejected"
    /\ UNCHANGED <<acroUrl, acroCalls, pdfContent, tmpFile, tmpBound,
                   pathBound, exc, docs, acroRes, notAcro>>

\* Step 1.
FetchPageHtml ==
    /\ acroPc = "html"
    /\ \E o \in {"ok"} \cup HtmlFailures :
          /\ StepCalled(Steps[1], o)
          /\ IF o = "ok"
             THEN acroPc' = "extract" /\ acroRes' = acroRes
             ELSE LoadRaises(<<o>>)
    /\ UNCHANGED <<acroUrl, pdfContent, tmpFile, tmpBound, pathBound, exc,
                   docs, notAcro>>

\* Step 2.
ExtractPdfUrl ==
    /\ acroPc = "extract"
    /\ \E o \in {"ok"} \cup ExtractFailures :
          /\ StepCalled(Steps[2], o)
          /\ IF o = "ok"
             THEN acroPc' = "download" /\ acroRes' = acroRes
             ELSE LoadRaises(<<o>>)
    /\ UNCHANGED <<acroUrl, pdfContent, tmpFile, tmpBound, pathBound, exc,
                   docs, notAcro>>

\* _download_pdf with a fault: empty content is passed on.
DownloadPdf_PassesEmpty ==
    /\ acroPc = "download"
    /\ \E o \in {"ok"} \cup DownloadFailures :
          /\ StepCalled(Steps[3], o)
          /\ IF o \in {"ok", "EmptyContent"}
             THEN /\ acroPc' = "create"
                  /\ acroRes' = acroRes
                  /\ \E c \in {"pdf", "other"} : pdfContent' = c
             ELSE /\ LoadRaises(<<o>>)
                  /\ pdfContent' = pdfContent
    /\ UNCHANGED <<acroUrl, tmpFile, tmpBound, pathBound, exc, docs, notAcro>>

\* Step 3: content that does not start with %PDF is logged and passed on.
DownloadPdf ==
    /\ acroPc = "download"
    /\ \E o \in {"ok"} \cup DownloadFailures :
          /\ StepCalled(Steps[3], o)
          /\ IF o = "ok"
             THEN /\ acroPc' = "create"
                  /\ acroRes' = acroRes
                  /\ \E c \in {"pdf", "other"} : pdfContent' = c
             ELSE /\ LoadRaises(<<o>>)
                  /\ pdfContent' = pdfContent
    /\ UNCHANGED <<acroUrl, tmpFile, tmpBound, pathBound, exc, docs, notAcro>>

\* Step 4 begins: tempfile.NamedTemporaryFile(suffix=".pdf", delete=False).
\* If it raises there is no file and temp_file is still None.
CreateTempFile ==
    /\ acroPc = "create"
    /\ StepCalled(Steps[4], "running")
    /\ \E ok \in BOOLEAN :
          IF ok
          THEN /\ tmpFile' = "exists"
               /\ tmpBound' = TRUE
               /\ acroPc' = "write"
               /\ exc' = exc
          ELSE /\ exc' = <<"OSError">>
               /\ acroPc' = "finally"
               /\ UNCHANGED <<tmpFile, tmpBound>>
    /\ UNCHANGED <<acroUrl, pdfContent, pathBound, docs, acroRes, notAcro>>

\* temp_file.write(pdf_content); temp_file_path = temp_file.name.  If the
\* write raises the with statement closes the file, which stays on disk,
\* and temp_file_path is not assigned.
WriteTempFile ==
    /\ acroPc = "write"
    /\ \E ok \in BOOLEAN :
          IF ok
          THEN /\ pathBound' = TRUE
               /\ acroPc' = "pypdf"
               /\ exc' = exc
          ELSE /\ exc' = <<"OSError">>
               /\ acroPc' = "finally"
               /\ pathBound' = pathBound
    /\ UNCHANGED <<acroUrl, acroCalls, pdfContent, tmpFile, tmpBound, docs,
                   acroRes, notAcro>>

\* PyPDFLoader(temp_file_path).load(), the test for no documents and the
\* metadata update (the source of every document becomes the url).
PyPdfLoad ==
    /\ acroPc = "pypdf"
    /\ \/ \E n \in 0..MaxDocs :
             /\ docs' = n
             /\ exc' = IF n = 0 THEN <<"NoContent">> ELSE exc
       \/ /\ exc' = <<"LoaderError">>
          /\ docs' = docs
    /\ acroPc' = "finally"
    /\ UNCHANGED <<acroUrl, acroCalls, pdfContent, tmpFile, tmpBound,
                   pathBound, acroRes, notAcro>>

\* The finally clause of _load_pdf_content, then the return or the raise of
\* load.  The clause reads temp_file_path when temp_file is set; os.unlink
\* can fail, which is logged and ignored.
Cleanup ==
    LET unbound == tmpBound /\ ~pathBound
        out == IF unbound THEN <<"UnboundLocalError">> \o exc ELSE exc
    IN /\ acroPc = "finally"
       /\ IF tmpBound /\ pathBound /\ tmpFile = "exists"
          THEN \E unlinked \in BOOLEAN :
                  tmpFile' = IF unlinked THEN "deleted" ELSE tmpFile
          ELSE tmpFile' = tmpFile
       /\ exc' = out
       /\ acroCalls' = [acroCalls EXCEPT ![4].outcome =
                           IF out = <<>> THEN "ok" ELSE Head(out)]
       /\ IF out = <<>>
          THEN /\ acroPc' = "done"
               /\ acroRes' = [status |-> "ok", error |-> "none",
                              chain |-> <<>>, docs |-> docs,
                              source |-> acroUrl]
          ELSE LoadRaises(out)
       /\ UNCHANGED <<acroUrl, pdfContent, tmpBound, pathBound, docs, notAcro>>

AcroNext ==
    \/ AcrobatConstruct
    \/ FetchPageHtml
    \/ ExtractPdfUrl
    \/ DownloadPdf
    \/ CreateTempFile
    \/ WriteTempFile
    \/ PyPdfLoad
    \/ Cleanup

(***************************************************************************)
(* One ingestion call, as _load_document_node makes it: the identifier is  *)
(* classified, load_document picks the loader class of that type,          *)
(* constructs it with the identifier and calls load.  The identifier is    *)
(* classified by CVEnhancementAgent._detect_file_type (what the node       *)
(* calls) or by core.document_loader.detect_file_type.                     *)
(***************************************************************************)
Classifiers == {"core", "agent"}
RemoteTypes == {"adobe_express", "adobe_acrobat"}

\* An exception: where it was raised, whether its message names the
\* identifier, and the chain of causes it carries, newest first.
NoError == [origin |-> "none", ident |-> FALSE, chain |-> <<>>]
Error(o, i, c) == [origin |-> o, ident |-> i, chain |-> c]

\* How load can fail, by loader.  The Express loader lets the exception of
\* its last document request through; the Acrobat loader wraps the cause in
\* a ValueError; the local loaders are library code.
ExpressLoadFailures == {"HTTPError", "TypeError"}
AcrobatLoadFailures ==
    HtmlFailures \cup ExtractFailures \cup DownloadFailures
        \cup {"NoContent", "LoaderError"}
LocalLoadFailures == {"FileNotFoundError", "LoaderError"}

\* Whether the message of a load failure names the identifier.  The Express
\* loader's errors name the API url built from the URN; the Acrobat
\* loader's message is "Failed to load document from Adobe Acrobat: {e}",
\* and e names a url only when it is a requests exception; what a library
\* loader says is its own business.
NamesIdentifier(type, failure) ==
    IF type = "adobe_express" THEN {FALSE}
    ELSE IF type = "adobe_acrobat"
    THEN IF failure = "RequestException" THEN BOOLEAN ELSE {FALSE}
    ELSE BOOLEAN

LoadFailures(type) ==
    IF type = "adobe_express" THEN ExpressLoadFailures
    ELSE IF type = "adobe_acrobat" THEN AcrobatLoadFailures
    ELSE LocalLoadFailures

LoadChain(type, failure) ==
    IF type = "adobe_acrobat" THEN <<"ValueError", failure>> ELSE <<failure>>

\* loader_cls(url), by type: the two Adobe constructors validate the url.
ConstructorAccepts(type, id) ==
    IF type = "adobe_express" THEN ExpressAccepts(id)
    ELSE IF type = "adobe_acrobat" THEN AcrobatAccepts(id)
    ELSE TRUE

IngestIdle ==
    /\ ingPc = "idle"
    /\ ingBy = "none"
    /\ ingType = "none"
    /\ ingErr = NoError

IngestInit ==
    /\ ingPc = "classify"
    /\ ingBy = "none"
    /\ ingType = "none"
    /\ ingErr = NoError

\* The classifier: both raise a ValueError whose message ends with the
\* identifier when no rule applies.
Classify ==
    /\ ingPc = "classify"
    /\ \E c \in Classifiers :
          LET t == IF c = "core" THEN DetectFileType(ident)
                   ELSE AgentDetectFileType(ident)
          IN /\ ingBy' = c
             /\ IF t = "ValueError"
                THEN /\ ingPc' = "failed"
                     /\ ingErr' = Error("classify", TRUE, <<"ValueError">>)
                     /\ ingType' = ingType
                ELSE /\ ingPc' = "construct"
                     /\ ingType' = t
                     /\ ingErr' = ingErr
    /\ UNCHANGED <<notIngest>>

\* load_document up to loader_cls(url).
ConstructLoader ==
    /\ ingPc = "construct"
    /\ IF ConstructorAccepts(ingType, ident)
       THEN /\ ingPc' = "load"
            /\ ingErr' = ingErr
       ELSE /\ ingPc' = "failed"
            /\ ingErr' = Error("constructor", FALSE, <<"ValueError">>)
    /\ UNCHANGED <<ingBy, ingType, notIngest>>

\* loader.load(); _load_document_node logs and re-raises what it raises.
RunLoader ==
    /\ ingPc = "load"
    /\ \/ /\ ingPc' = "done"
          /\ ingErr' = ingErr
       \/ \E f \in LoadFailures(ingType) :
             \E i \in NamesIdentifier(ingType, f) :
                /\ ingPc' = "failed"
                /\ ingErr' = Error("load", i, LoadChain(ingType, f))
    /\ UNCHANGED <<ingBy, ingType, notIngest>>

IngestNext == Classify \/ ConstructLoader \/ RunLoader

(***************************************************************************)
(* The content round trip: _generate_output_node renders the template      *)
(* around the markup, _extract_enhanced_content takes the content back out *)
(* of the HTML.  A string is a tuple of pieces: a word, a blank, a         *)
(* newline, an ampersand, or a closing div tag written in the markup.      *)
(***************************************************************************)
MaxMarkup == 3

Word == "w"
Blank == " "
Newline == "\n"
Amp == "&"
DivOpen == "<div class=\"content\">"
DivClose == "</div>"
StyleClose == "</style>"
BodyClose == "</body>"

MarkupPieces == {Word, Blank, Amp, DivClose}
Markups == UNION {[1..n -> MarkupPieces] : n \in 0..MaxMarkup}

Whitespace == {Blank, Newline}
Tags == {"<html>", "<style>", StyleClose, "<body>", DivOpen, DivClose,
         BodyClose, "</html>"}

\* markupsafe.escape, piece by piece: what autoescape=True does to a plain
\* string put into the template.
Escape(piece) ==
    IF piece = Amp THEN "&amp;"
    ELSE IF piece = DivClose THEN "&lt;/div&gt;"
    ELSE piece

EscapeAll(s) == [i \in 1..Len(s) |-> Escape(s[i])]

\* template.render(cv_content=...): the fixed template with the content in
\* its content division, escaped unless the template marks it safe.
TemplateRender(content, isSafe) ==
    <<"<html>", "<style>", StyleClose, "<body>", DivOpen, Newline>>
        \o (IF isSafe THEN content ELSE EscapeAll(content))
        \o <<Newline, DivClose, BodyClose, "</html>">>

\* The least index >= from whose piece is in the set, 0 when there is none.
FirstIn(s, set, from) ==
    IF \E i \in from..Len(s) : s[i] \in set
    THEN CHOOSE i \in from..Len(s) :
            /\ s[i] \in set
            /\ \A j \in from..(i - 1) : s[j] \notin set
    ELSE 0

\* str.strip()
StripSeq(s) ==
    IF \A i \in 1..Len(s) : s[i] \in Whitespace
    THEN <<>>
    ELSE LET a == CHOOSE i \in 1..Len(s) :
                     /\ s[i] \notin Whitespace
                     /\ \A j \in 1..(i - 1) : s[j] \in Whitespace
             b == CHOOSE i \in 1..Len(s) :
                     /\ s[i] \notin Whitespace
                     /\ \A j \in (i + 1)..Len(s) : s[j] \in Whitespace
         IN SubSeq(s, a, b)

RemoveTags(s) == SelectSeq(s, LAMBDA piece : piece \notin Tags)

\* _extract_enhanced_content: the text from the first content division up
\* to the first closing div tag after it (the pattern is not greedy); else
\* what lies between the style sheet and the end of the body without its
\* tags; else the whole text without its tags.
ExtractEnhancedContent(html) ==
    LET open == FirstIn(html, {DivOpen}, 1)
        close == IF open = 0 THEN 0 ELSE FirstIn(html, {DivClose}, open + 1)
        styleEnd == FirstIn(html, {StyleClose}, 1)
        bodyEnd == FirstIn(html, {BodyClose}, 1)
    IN IF close # 0
       THEN StripSeq(SubSeq(html, open + 1, close - 1))
       ELSE IF styleEnd # 0 /\ bodyEnd # 0
       THEN StripSeq(RemoveTags(SubSeq(html, styleEnd + 1, bodyEnd - 1)))
       ELSE StripSeq(RemoveTags(html))

TripIdle ==
    /\ markup = <<>>
    /\ safe = FALSE
    /\ tripPc = "idle"
    /\ tripHtml = <<>>
    /\ tripOut = <<>>

TripInit ==
    /\ markup \in Markups
    /\ safe \in BOOLEAN
    /\ tripPc = "render"
    /\ tripHtml = <<>>
    /\ tripOut = <<>>

RenderStep ==
    /\ tripPc = "render"
    /\ tripHtml' = TemplateRender(markup, safe)
    /\ tripPc' = "extract"
    /\ UNCHANGED <<markup, safe, tripOut, notTrip>>

ExtractStep ==
    /\ tripPc = "extract"
    /\ tripOut' = ExtractEnhancedContent(tripHtml)
    /\ tripPc' = "done"
    /\ UNCHANGED <<markup, safe, tripHtml, notTrip>>

TripNext == RenderStep \/ ExtractStep

(***************************************************************************)
(* Engine 3's drawing: _add_formatted_text_to_pdf lays the text out on the *)
(* one page it is given.  Lengths are in tenths of a point, so that        *)
(* line_height * 0.5, line_height * 1.2 and font_size * 0.6 are integers.  *)
(* A word is its length in characters; a line is its words and whether     *)
(* str.isupper holds of it.                                                *)
(***************************************************************************)
MaxLines == 2
MaxWords == 2
ShortPage == 150
TallPage == 164

FontSize == 11
LineHeight == 14
Margin == 72
HeaderLength == 50
PageWidth == 595

WordLengths == {30, 60}
WordSeqs == UNION {[1..n -> WordLengths] : n \in 0..MaxWords}
TextLine == [words : WordSeqs, upper : BOOLEAN]
EmptyLine == [words |-> <<>>, upper |-> FALSE]
TextLineSet == {l \in TextLine : l.words = <<>> => ~l.upper}
TextContents == UNION {[1..n -> TextLineSet] : n \in 0..MaxLines}

\* len() of the words joined by single blanks.
RECURSIVE CharCount(_)
CharCount(ws) ==
    IF ws = <<>> THEN 0
    ELSE IF Len(ws) = 1 THEN ws[1]
    ELSE ws[1] + 1 + CharCount(Tail(ws))

\* current_font_size: a header (all capitals, or shorter than 50
\* characters) is two points larger.
CurrentFontSize(line) ==
    IF line.upper \/ CharCount(line.words) < HeaderLength
    THEN FontSize + 2
    ELSE FontSize

\* text_width < page_width - 2 * margin, with char_width = size * 0.6.
Fits(ws, size) == CharCount(ws) * size * 6 < 10 * (PageWidth - 2 * Margin)

Drawn(yy, ws) == [kind |-> "drawn", y |-> yy, words |-> ws]
Dropped(yy, ws) == [kind |-> "dropped", y |-> yy, words |-> ws]

\* The inner loop over the words of a line, from word k on: st is the
\* current line, the position and the marks so far.  A full line is drawn
\* and the position moves down by line_height; when there is no room the
\* loop breaks and the rest of the line is never drawn.
RECURSIVE WrapWords(_, _, _, _)
WrapWords(ws, size, k, st) ==
    IF k > Len(ws) THEN st
    ELSE LET test == Append(st.cur, ws[k])
         IN IF Fits(test, size)
            THEN WrapWords(ws, size, k + 1, [st EXCEPT !.cur = test])
            ELSE IF st.cur = <<>>
            THEN WrapWords(ws, size, k + 1, [st EXCEPT !.cur = <<ws[k]>>])
            ELSE IF st.y < 10 * Margin
            THEN [st EXCEPT
                    !.marks = Append(@, Dropped(st.y,
                                 st.cur \o SubSeq(ws, k, Len(ws)))),
                    !.cur = <<>>,
                    !.broke = TRUE]
            ELSE WrapWords(ws, size, k + 1,
                    [st EXCEPT !.marks = Append(@, Drawn(st.y, st.cur)),
                               !.y = @ - 10 * LineHeight,
                               !.cur = <<ws[k]>>])

\* "Print the last line" with a fault: it is drawn without looking at the
\* position.
PrintLast_NoSpaceCheck(st) ==
    IF st.cur = <<>> THEN st
    ELSE [st EXCEPT !.marks = Append(@, Drawn(st.y, st.cur)),
                    !.y = @ - 12 * LineHeight]

\* "Print the last line": what is left of the line is drawn if there is
\* room, and the position moves down by line_height * 1.2.
PrintLast(st) ==
    IF st.cur = <<>> THEN st
    ELSE IF st.y >= 10 * Margin
    THEN [st EXCEPT !.marks = Append(@, Drawn(st.y, st.cur)),
                    !.y = @ - 12 * LineHeight]
    ELSE IF st.broke THEN st
    ELSE [st EXCEPT !.marks = Append(@, Dropped(st.y, st.cur))]

DrawIdle ==
    /\ pageHeight = 0
    /\ textLines = <<>>
    /\ drawPc = "idle"
    /\ lineNo = 0
    /\ yPosition = 0
    /\ marks = <<>>

DrawInit ==
    /\ pageHeight \in {ShortPage, TallPage}
    /\ textLines \in TextContents
    /\ drawPc = "start"
    /\ lineNo = 0
    /\ yPosition = 0
    /\ marks = <<>>

\* y_position = page_height - margin
StartDrawing ==
    /\ drawPc = "start"
    /\ yPosition' = 10 * (pageHeight - Margin)
    /\ drawPc' = "lines"
    /\ UNCHANGED <<pageHeight, textLines, lineNo, marks, notDraw>>

\* One turn of "for line in lines" on an empty line.
SkipEmptyLine ==
    /\ drawPc = "lines"
    /\ lineNo < Len(textLines)
    /\ textLines[lineNo + 1].words = <<>>
    /\ yPosition' = yPosition - 5 * LineHeight
    /\ lineNo' = lineNo + 1
    /\ UNCHANGED <<pageHeight, textLines, drawPc, marks, notDraw>>

\* One turn of "for line in lines" on a line with words.
DrawLine ==
    /\ drawPc = "lines"
    /\ lineNo < Len(textLines)
    /\ textLines[lineNo + 1].words # <<>>
    /\ LET line == textLines[lineNo + 1]
           st == PrintLast(WrapWords(line.words, CurrentFontSize(line), 1,
                     [cur |-> <<>>, y |-> yPosition, marks |-> marks,
                      broke |-> FALSE]))
       IN /\ yPosition' = st.y
          /\ marks' = st.marks
    /\ lineNo' = lineNo + 1
    /\ UNCHANGED <<pageHeight, textLines, drawPc, notDraw>>

\* The loop is over: the function returns None to Engine 3.
DrawReturn ==
    /\ drawPc = "lines"
    /\ lineNo = Len(textLines)
    /\ drawPc' = "returned"
    /\ UNCHANGED <<pageHeight, textLines, lineNo, yPosition, marks, notDraw>>

DrawNext == StartDrawing \/ SkipEmptyLine \/ DrawLine \/ DrawReturn

(***************************************************************************)
(* The Streamlit app.  Every session runs main() in the same process and   *)
(* the same working directory; each has its own st.session_state.  The     *)
(* enhancement always writes to output_path = "enhanced_resume".           *)
(***************************************************************************)
MaxCleanups == 1
MaxRegens == 1

Sessions == {1, 2}
Nobody == 0
NoPath == "None"
OutputPath == "enhanced_resume"
EditedPath == "edited_resume"
Suffixes == {"html", "pdf"}
NoFiles == [x \in Suffixes |-> Nobody]

AppIdle ==
    /\ disk = NoFiles
    /\ artifacts = {}
    /\ processed = [s \in Sessions |-> FALSE]
    /\ resultPath = [s \in Sessions |-> NoPath]
    /\ notice = [s \in Sessions |-> "idle"]
    /\ offered = [s \in Sessions |-> NoFiles]
    /\ cleanups = {}
    /\ cleaned = 0
    /\ regens = 0

\* The session state of a first run: processed False, result_path None.
AppInit ==
    /\ disk = NoFiles
    /\ artifacts = {}
    /\ processed = [s \in Sessions |-> FALSE]
    /\ resultPath = [s \in Sessions |-> NoPath]
    /\ notice = [s \in Sessions |-> "none"]
    /\ offered = [s \in Sessions |-> NoFiles]
    /\ cleanups = {}
    /\ cleaned = 0
    /\ regens = 0

\* 'Enhance CV' with valid inputs: process_cv_enhancement writes
\* enhanced_resume.html and, when a PDF was asked for and an engine
\* succeeded, enhanced_resume.pdf; then the session state is set.  When it
\* raises, the error is shown and the session state stays.
Enhance(s) ==
    \/ /\ \E pdf \in BOOLEAN :
             disk' = [html |-> s,
                      pdf |-> IF pdf THEN s ELSE disk["pdf"]]
       /\ processed' = [processed EXCEPT ![s] = TRUE]
       /\ resultPath' = [resultPath EXCEPT ![s] = OutputPath]
       /\ notice' = [notice EXCEPT ![s] = "enhanced"]
       /\ UNCHANGED <<artifacts, offered, cleanups, cleaned, regens, notApp>>
    \/ /\ notice' = [notice EXCEPT ![s] = "enhancement_failed"]
       /\ UNCHANGED <<disk, artifacts, processed, resultPath, offered,
                      cleanups, cleaned, regens, notApp>>

\* A rerun of the script shows the results: the files at result_path are
\* read, if they exist, and their content is what the download buttons
\* offer.
ShowResults(s) ==
    /\ processed[s]
    /\ resultPath[s] # NoPath
    /\ offered' = [offered EXCEPT ![s] = disk]
    /\ UNCHANGED <<disk, artifacts, processed, resultPath, notice, cleanups,
                   cleaned, regens, notApp>>

\* A download button is pressed: on_click starts the cleanup thread for
\* both files of the session's result path.
ClickDownload(s) ==
    /\ processed[s]
    /\ resultPath[s] # NoPath
    /\ offered[s] # NoFiles
    /\ s \notin cleanups
    /\ cleaned + Cardinality(cleanups) < MaxCleanups
    /\ cleanups' = cleanups \cup {s}
    /\ UNCHANGED <<disk, artifacts, processed, resultPath, notice, offered,
                   cleaned, regens, notApp>>

\* delayed_cleanup wakes up after two seconds and unlinks the files that
\* exist.
DelayedCleanup(s) ==
    /\ s \in cleanups
    /\ disk' = NoFiles
    /\ cleanups' = cleanups \ {s}
    /\ cleaned' = cleaned + 1
    /\ UNCHANGED <<artifacts, processed, resultPath, notice, offered, regens,
                   notApp>>

\* Regenerate with a fault: the agent has the method and it succeeds.
Regenerate_Defined(s) ==
    /\ processed[s]
    /\ resultPath[s] # NoPath
    /\ regens < MaxRegens
    /\ regens' = regens + 1
    /\ artifacts' = artifacts \cup {EditedPath}
    /\ resultPath' = [resultPath EXCEPT ![s] = EditedPath]
    /\ notice' = [notice EXCEPT ![s] = "regenerated"]
    /\ UNCHANGED <<disk, processed, offered, cleanups, cleaned, notApp>>

\* 'Regenerate PDF with Changes': CVEnhancementAgent has no attribute
\* _generate_pdf_from_content, the call raises AttributeError inside the
\* try block, and the handler shows "Regeneration failed".
Regenerate(s) ==
    /\ processed[s]
    /\ resultPath[s] # NoPath
    /\ regens < MaxRegens
    /\ regens' = regens + 1
    /\ notice' = [notice EXCEPT ![s] = "regeneration_failed"]
    /\ UNCHANGED <<disk, artifacts, processed, resultPath, offered, cleanups,
                   cleaned, notApp>>

AppNext ==
    \E s \in Sessions :
        \/ Enhance(s)
        \/ ShowResults(s)
        \/ ClickDownload(s)
        \/ DelayedCleanup(s)
        \/ Regenerate(s)

(***************************************************************************)
(* The specifications.                                                     *)
(***************************************************************************)
ClassIdle ==
    /\ ident = <<>>
    /\ detRes = "none"
    /\ agentRes = "none"

LoaderIdle == UrnIdle /\ ExpressIdle /\ MineIdle /\ OcrIdle /\ AcroIdle

MoreIdle == IngestIdle /\ TripIdle /\ DrawIdle /\ AppIdle

Init == RenderInit /\ TokenInit /\ ClassIdle /\ LoaderIdle /\ MoreIdle
Spec == Init /\ [][RenderNext]_vars

TokenSpec == Init /\ [][TokenNext]_vars

ClassifyInit ==
    RenderInit /\ TokenInit /\ ClassInit /\ LoaderIdle /\ MoreIdle
ClassifySpec == ClassifyInit /\ [][ClassNext]_vars

OthersIdle == RenderInit /\ TokenInit /\ ClassIdle /\ MoreIdle

UrnSpecInit ==
    OthersIdle /\ UrnInit /\ ExpressIdle /\ MineIdle /\ OcrIdle /\ AcroIdle
UrnSpec == UrnSpecInit /\ [][UrnNext]_vars

ExpressSpecInit ==
    OthersIdle /\ UrnIdle /\ ExpressInit /\ MineIdle /\ OcrIdle /\ AcroIdle
ExpressSpec == ExpressSpecInit /\ [][ExpressNext]_vars

MineSpecInit ==
    OthersIdle /\ UrnIdle /\ ExpressIdle /\ MineInit /\ OcrIdle /\ AcroIdle
MineSpec == MineSpecInit /\ [][MineNext]_vars

OcrSpecInit ==
    OthersIdle /\ UrnIdle /\ ExpressIdle /\ MineIdle /\ OcrInit /\ AcroIdle
OcrSpec == OcrSpecInit /\ [][OcrNext]_vars

AcroSpecInit ==
    OthersIdle /\ UrnIdle /\ ExpressIdle /\ MineIdle /\ OcrIdle /\ AcroInit
AcroSpec == AcroSpecInit /\ [][AcroNext]_vars

IngestSpecInit ==
    /\ RenderInit /\ TokenInit /\ ClassInit /\ LoaderIdle
    /\ IngestInit /\ TripIdle /\ DrawIdle /\ AppIdle
IngestSpec == IngestSpecInit /\ [][IngestNext]_vars

BaseIdle == RenderInit /\ TokenInit /\ ClassIdle /\ LoaderIdle

TripSpecInit == BaseIdle /\ IngestIdle /\ TripInit /\ DrawIdle /\ AppIdle
TripSpec == TripSpecInit /\ [][TripNext]_vars

DrawSpecInit == BaseIdle /\ IngestIdle /\ TripIdle /\ DrawInit /\ AppIdle
DrawSpec == DrawSpecInit /\ [][DrawNext]_vars

AppSpecInit == BaseIdle /\ IngestIdle /\ TripIdle /\ DrawIdle /\ AppInit
AppSpec == AppSpecInit /\ [][AppNext]_vars

(***************************************************************************)
(* The rendering chain: claims C1 to C5, checked under Spec.               *)
(***************************************************************************)
IsEngine(e) == e \in EngineSet
EngineCalls == SelectSeq(calls, IsEngine)
AllRaised == \A e \in EngineSet : Raised(e)
Position(step) == CHOOSE i \in 1..Len(calls) : calls[i] = step
Called(step) == \E i \in 1..Len(calls) : calls[i] = step

\* C1: the engines run in the order 1, 2, 3, each at most once; engine k+1
\* runs only if engine k raised; no engine runs after one has succeeded.
C1_EngineOrder ==
    /\ Len(EngineCalls) <= Len(Engines)
    /\ \A i \in 1..Len(EngineCalls) : EngineCalls[i] = Engines[i]
    /\ \A i \in 2..Len(EngineCalls) : Raised(Engines[i - 1])
    /\ \A i \in 1..Len(EngineCalls) :
          res[Engines[i]] = "ok" => i = Len(EngineCalls)

C1_Witness ==
    /\ EngineCalls = Engines
    /\ Raised("e1")
    /\ Raised("e2")
    /\ res["e3"] = "ok"

\* C2: when all three engines have raised and the request has returned, no
\* file exists at pdf_path and the file at html_path exists and is not empty.
C2_AllFailedNoPdf ==
    (AllRaised /\ rpc = "done") =>
        /\ pdfFile = NoPdf
        /\ htmlFile.req = req
        /\ htmlFile.content # <<>>

\* C3: when engines 1 and 2 have raised, engine 3 is the next to run; when
\* it succeeds the file at pdf_path is the complete file engine 3 wrote in
\* this request, and the chain returns True.
C3_Engine3Fallback ==
    /\ (Raised("e1") /\ Raised("e2")) => (rpc = "e3" \/ Called("e3"))
    /\ (Raised("e1") /\ Raised("e2") /\ res["e3"] = "ok") =>
          /\ pdfFile = [req |-> req, by |-> "e3", complete |-> TRUE]
          /\ pdfGenerated = "True"
          /\ rpc \in {"output_return", "done"}

C3_Witness ==
    /\ res["e1"] = "raised_open"
    /\ Raised("e2")
    /\ res["e3"] = "ok"
    /\ rpc = "done"

\* C4: when all three engines have raised, the chain has returned False, the
\* request goes on to return without an exception, and the file at
\* html_path is the one this request wrote.
C4_AllFailedStillReturns ==
    AllRaised =>
        /\ pdfGenerated = "False"
        /\ rpc \in {"output_return", "done"}
        /\ err = "none"
        /\ htmlFile = [req |-> req, content |-> htmlContent]
        /\ htmlContent # <<>>

C4_Witness ==
    /\ AllRaised
    /\ rpc = "done"
    /\ htmlFile.req = req

\* C5: an engine runs only when generate_pdf is set and only after the
\* template was rendered and the HTML file written, in this request; a
\* request in which rendering or the HTML write raised has failed with that
\* error and ran no engine.
C5_HtmlFirst ==
    /\ EngineCalls # <<>> =>
          /\ genPdf
          /\ Called("render") /\ Called("write_html") /\ Called("e1")
          /\ Position("render") < Position("write_html")
          /\ Position("write_html") < Position("e1")
          /\ htmlFile = [req |-> req, content |-> htmlContent]
    /\ rpc \in {"e1", "e2", "e3"} => genPdf
    /\ err \in {"template", "html_write"} =>
          /\ rpc = "failed"
          /\ EngineCalls = <<>>
    /\ (Called("render") /\ ~Called("write_html") /\ rpc # "write_html") =>
          (rpc = "failed" /\ err = "template")

C5_Witness ==
    /\ Called("e1")
    /\ genPdf
    /\ htmlFile.req = req
    /\ req = MaxRequests

(***************************************************************************)
(* The token cache: claims C6 to C8, checked under TokenSpec.              *)
(***************************************************************************)
\* Seconds since the link was stored.
Age(l) == now - (l.expires - TTL)
StartsCall(c) == cpc[c] = "idle" /\ cpc'[c] # "idle"

\* C6: a call made less than 600 s after the cached token was stored
\* returns that token and sends no request; a call made more than 600 s
\* after sends a new request.
C6_TokenCache ==
    [][\A c \in Callers : StartsCall(c) =>
          \A l \in cache :
             /\ Age(l) < TTL =>
                   /\ cpc'[c] = "have_token"
                   /\ cret'[c] = l.token
                   /\ fetches' = fetches
             /\ Age(l) > TTL =>
                   /\ cpc'[c] = "fetching"
                   /\ fetches' = fetches + 1]_vars

C6_Witness ==
    \E c \in Callers : \E l \in cache :
        /\ cpc[c] = "have_token"
        /\ hit[c]
        /\ cret[c] = l.token
        /\ Age(l) > 0
        /\ Age(l) < TTL
        /\ fetches = 1

\* C7: when the server reports 401 for the token that is cached and live,
\* the cache no longer holds a live token afterwards.
C7_DiscardedOn401 ==
    [][\A c \in Callers :
          (/\ cpc[c] = "have_token"
           /\ cpc'[c] = "rejected_401"
           /\ \E l \in Live(cache, now) : l.token = cret[c])
          => Live(cache', now') = {}]_vars

\* C8: a caller that starts while a live token is cached returns it without
\* a request; every caller that returns, returns a token some fetch
\* produced; the cache never holds more than one token, that of a fetch;
\* and right after a caller stores, it holds exactly one, the one returned.
C8_ConcurrentCallers ==
    /\ [](\A c \in Callers :
            cpc[c] \in {"have_token", "done", "rejected_401"} =>
               cret[c] \in issued)
    /\ [](Cardinality(cache) <= 1 /\ \A l \in cache : l.token \in issued)
    /\ [][\A c \in Callers :
            (StartsCall(c) /\ Live(cache, now) # {}) =>
               /\ cpc'[c] = "have_token"
               /\ \E l \in Live(cache, now) : cret'[c] = l.token
               /\ fetches' = fetches]_vars
    /\ [][\A c \in Callers :
            (cpc[c] = "fetched" /\ cpc'[c] = "have_token") =>
               /\ Cardinality(Live(cache', now')) = 1
               /\ \E l \in cache' : l.token = cret'[c]]_vars

\* Two callers missed together and both fetched; the second returned the
\* token the first had stored.
C8_Witness ==
    \E c1, c2 \in Callers :
        /\ c1 # c2
        /\ cpc[c1] = "have_token" /\ cpc[c2] = "have_token"
        /\ ~hit[c1] /\ ~hit[c2]
        /\ held[c1] # held[c2]
        /\ cret[c1] = cret[c2]
        /\ cache = {[token |-> cret[c1], expires |-> now + TTL]}

(***************************************************************************)
(* The classifiers: claims C9 and C10, checked under ClassifySpec.         *)
(***************************************************************************)
\* The priority rules: Express host, then Acrobat host or URN prefix, then
\* the extension, all on the lower-cased identifier.
RuleClassify(id) ==
    LET l == Lower(id)
    IN IF Contains(l, ExpressHost) THEN "adobe_express"
       ELSE IF Contains(l, AcrobatHost) \/ Contains(l, Lower(UrnPrefix))
       THEN "adobe_acrobat"
       ELSE IF EndsWith(l, ExtPdf) THEN "pdf"
       ELSE IF EndsWith(l, ExtDocx) THEN "docx"
       ELSE IF EndsWith(l, ExtTxt) \/ EndsWith(l, ExtMd) THEN "txt"
       ELSE "ValueError"

\* C9: each classifier's result is that of the priority rules.
C9_ClassifierRules ==
    /\ detRes # "none" => detRes = RuleClassify(ident)
    /\ agentRes # "none" => agentRes = RuleClassify(ident)

ByExtension(result) ==
    LET l == Lower(ident)
    IN /\ EndsWith(l, ExtPdf) => result = "pdf"
       /\ EndsWith(l, ExtDocx) => result = "docx"
       /\ EndsWith(l, ExtTxt) => result = "txt"

NoRemoteMarker ==
    /\ ~Contains(Lower(ident), AdobeHost)
    /\ ~Contains(Lower(ident), Lower(UrnPrefix))

PathOrQuery == {"/", "?"}

\* What follows the first prefix, up to the next path or query delimiter.
UpToDelimiter(u) ==
    LET i == FirstAt(u, UrnPrefix)
        rest == SubSeq(u, i + Len(UrnPrefix), Len(u))
        stops == {k \in 1..Len(rest) : rest[k] \in PathOrQuery}
        end == IF stops = {} THEN Len(rest)
               ELSE (CHOOSE k \in stops : \A j \in stops : k <= j) - 1
    IN SubSeq(rest, 1, end)

\* C11: the URN extracted is the text that follows the prefix up to the
\* next path or query delimiter, without trailing separators.
C11_UrnUpToDelimiter ==
    upc = "extracted" => urn = UpToDelimiter(url)

\* C12: the URN extracted from a url the constructor accepted is not empty.
C12_UrnNonEmpty ==
    upc = "extracted" => urn # <<>>

(***************************************************************************)
(* The Express loader's requests: claims C13 to C15, checked under         *)
(* ExpressSpec.                                                            *)
(***************************************************************************)
DocRequests(v) == {i \in 1..Len(lreqs[v]) : lreqs[v][i].to = "doc"}
TokenFailed(v) == Len(lreqs[v]) >= 1 /\ lreqs[v][1].ans # "200"
Done(v) == lpc[v] = "done"

\* C13: when the token request failed the loader goes on to the document
\* request, and no document request carries an Authorization header unless
\* a token was obtained.
C13_NoHeaderWithoutToken ==
    \A v \in Variants :
        /\ TokenFailed(v) /\ Done(v) => DocRequests(v) # {}
        /\ \A i \in DocRequests(v) :
              lreqs[v][i].hdr # "none" =>
                  /\ ~TokenFailed(v)
                  /\ lreqs[v][i].hdr = "token"

\* C14: in both variants, a 401 to a document request made with a token is
\* followed by exactly one request without Authorization, whose answer is
\* the one the returned texts are mined from; a 401 to a request made
\* without a token is followed by no request.
C14_RetryOnceOn401 ==
    \A v \in Variants : \A i \in DocRequests(v) :
        lreqs[v][i].ans = Unauthorized /\ Done(v) =>
            IF lreqs[v][i].hdr = "token" /\ ~TokenFailed(v)
            THEN /\ Len(lreqs[v]) = i + 1
                 /\ lreqs[v][i + 1].hdr = "none"
                 /\ lres[v].status = "ok" => lres[v].from = i + 1
                 /\ lreqs[v][i + 1].ans \notin ErrorStatus \cup {"bad"}
                        => lres[v].status = "ok"
            ELSE Len(lreqs[v]) = i

Outcome(v) == [status |-> lres[v].status, texts |-> lres[v].texts]

\* C15: against the same server, load and aload return the same texts or
\* both fail.
C15_SameOutcome ==
    Done("load") /\ Done("aload") => Outcome("load") = Outcome("aload")

(***************************************************************************)
(* Text mining: claims C16 and C17, checked under MineSpec.                *)
(***************************************************************************)
\* The nested mappings that hold a TextModel with a non-empty text.
TextHolders(d) ==
    {i \in 2..Len(d) : d[i].kind = "dict" /\ d[i].tm = "text"}

RECURSIVE Depth(_, _)
Depth(d, i) == IF d[i].parent = 0 THEN 0 ELSE 1 + Depth(d, d[i].parent)

Emitted == {texts[i] : i \in 1..Len(texts)}

\* C16: exactly one text is emitted for every nested mapping that holds a
\* TextModel with a non-empty text, wherever it is nested, and nothing else.
C16_OneTextPerTextModel ==
    mpc = "mined" =>
        /\ Emitted = TextHolders(docModel)
        /\ Len(texts) = Cardinality(TextHolders(docModel))

\* C17: the texts come shallow to deep, and the texts of one parent keep
\* the iteration order of its mapping.
C17_ShallowToDeep ==
    mpc = "mined" =>
        \A i, j \in 1..Len(texts) :
            i < j =>
                /\ Depth(docModel, texts[i]) <= Depth(docModel, texts[j])
                /\ docModel[texts[i]].parent = docModel[texts[j]].parent
                       => texts[i] < texts[j]

C17_Witness ==
    /\ mpc = "mined"
    /\ docModel = TwoBranches
    /\ texts = <<2, 3, 4, 5, 6>>

(***************************************************************************)
(* The page-image loop: claim C18, checked under OcrSpec.                  *)
(***************************************************************************)
\* The number of leading pages the server answers with an image.
LeadingImages ==
    IF \A n \in 0..(Len(pages) - 1) : pages[n + 1] \in Images
    THEN Len(pages)
    ELSE CHOOSE k \in 0..(Len(pages) - 1) :
            /\ pages[k + 1] \notin Images
            /\ \A n \in 0..(k - 1) : pages[n + 1] \in Images

\* C18: pages 0, 1, 2, ... are requested in increasing order until one is
\* answered 404 or another error; the pages fetched before are kept, and
\* the result is one unit per fetched page with OCR text, tagged with its
\* page_index.  Images for pages 0 to 2 and 404 for page 3 give three units
\* with page_index 0, 1, 2.
C18_PageLoop ==
    /\ asked = [i \in 1..Len(asked) |-> i - 1]
    /\ opc # "fetching" =>
          /\ Len(asked) = LeadingImages + 1
          /\ fetched = [i \in 1..LeadingImages |-> i - 1]
    /\ opc = "done" =>
          units = SelectSeq([i \in 1..LeadingImages |->
                                [page_index |-> i - 1, text |-> i - 1]],
                            LAMBDA u : pages[u.page_index + 1] = "text")
    /\ opc = "done" /\ pages = <<"text", "text", "text">> =>
          /\ Len(units) = 3
          /\ \A i \in 1..3 : units[i].page_index = i - 1

C18_Witness ==
    /\ opc = "done"
    /\ pages = <<"text", "text", "text">>
    /\ asked = <<0, 1, 2, 3>>
    /\ Len(units) = 3

(***************************************************************************)
(* The Acrobat loader: claims C19 and C20, checked under AcroSpec.         *)
(***************************************************************************)
LoadPdfContentExited ==
    /\ Len(acroCalls) = 4
    /\ acroCalls[4].outcome # "running"

\* C19: when _load_pdf_content has exited, by return or by any failure,
\* the temporary file does not exist.
C19_TempFileGone ==
    LoadPdfContentExited => tmpFile # "exists"

Failed(i) == acroCalls[i].outcome \notin {"ok", "running"}

\* C20: the four steps run in order; a step that fails is the last one to
\* run, and load then raises one ValueError that carries the cause and
\* returns no documents; otherwise load returns the documents of step 4.
C20_StepsInOrder ==
    /\ Len(acroCalls) <= 4
    /\ \A i \in 1..Len(acroCalls) :
          /\ acroCalls[i].step = Steps[i]
          /\ Failed(i) =>
                /\ i = Len(acroCalls)
                /\ acroPc = "done"
                /\ acroRes.status = "raised"
                /\ acroRes.error = "ValueError"
                /\ acroRes.chain # <<>>
                /\ acroRes.chain[1] = acroCalls[i].outcome
                /\ acroRes.docs = 0
    /\ acroRes.status = "raised" => Failed(Len(acroCalls))
    /\ acroRes.status = "ok" =>
          /\ Len(acroCalls) = 4
          /\ \A i \in 1..4 : acroCalls[i].outcome = "ok"
          /\ acroRes.docs = docs
          /\ docs > 0

C20_Witness ==
    /\ acroPc = "done"
    /\ Len(acroCalls) = 3
    /\ acroCalls[3].outcome = "EmptyContent"
    /\ acroRes.status = "raised"

(***************************************************************************)
(* The workflow: claim C21, checked under Spec.                            *)
(***************************************************************************)
Nodes == <<"load", "enhance", "render">>
IsNode(step) == step \in {"load", "enhance", "render"}
NodeCalls == SelectSeq(calls, IsNode)
OutputSteps == {"render", "write_html", "e1", "e2", "e3"}

\* C21: in one request the nodes run in the order load, text generation,
\* output, each at most once; text generation runs only after the load
\* succeeded; a failure of the load or of the text generation, an empty
\* reply included, ends the request, after which no node runs and neither
\* the HTML nor the PDF file is written by this request.
C21_WorkflowOnce ==
    /\ Len(NodeCalls) <= Len(Nodes)
    /\ \A i \in 1..Len(NodeCalls) : NodeCalls[i] = Nodes[i]
    /\ (rpc = "enhance" \/ Called("enhance")) =>
          Called("load") /\ err # "load"
    /\ Called("render") => enhanced # ""
    /\ err \in {"load", "enhance"} =>
          /\ rpc = "failed"
          /\ calls[Len(calls)] = err
          /\ \A i \in 1..Len(calls) : calls[i] \notin OutputSteps
          /\ htmlFile.req # req
          /\ pdfFile.req # req

C21_Witness ==
    /\ err = "enhance"
    /\ rpc = "failed"
    /\ htmlFile.req \notin {0, req}

(***************************************************************************)
(* Ingestion errors and the constructors: claims C22 and C27, checked      *)
(* under IngestSpec.                                                       *)
(***************************************************************************)
\* C22: the error a failed ingestion call ends with names the identifier
\* and carries the cause.
C22_ErrorCarriesIdentifier ==
    ingPc = "failed" =>
        /\ ingErr.ident
        /\ ingErr.chain # <<>>

\* C27: an identifier that detect_file_type classified as remote is not
\* refused by the constructor of the loader selected for it.
C27_ConstructorAcceptsClassified ==
    (ingBy = "core" /\ ingType \in RemoteTypes) => ingErr.origin # "constructor"

(***************************************************************************)
(* The content round trip: claim C23, checked under TripSpec.              *)
(***************************************************************************)
\* The words of a string: its maximal runs of pieces that are not
\* whitespace.  Two strings are equal modulo whitespace normalization when
\* they have the same words.
RECURSIVE WordsOf(_)
WordsOf(s) ==
    LET t == StripSeq(s)
        gap == FirstIn(t, Whitespace, 1)
    IN IF t = <<>> THEN <<>>
       ELSE IF gap = 0 THEN <<t>>
       ELSE <<SubSeq(t, 1, gap - 1)>> \o WordsOf(SubSeq(t, gap + 1, Len(t)))

\* C23: extracting the content of the rendered HTML gives back the markup,
\* up to whitespace.
C23_RoundTrip ==
    tripPc = "done" => WordsOf(tripOut) = WordsOf(markup)

(***************************************************************************)
(* Engine 3's drawing: claim C24, checked under DrawSpec.                  *)
(***************************************************************************)
RECURSIVE Flatten(_)
Flatten(ss) == IF ss = <<>> THEN <<>> ELSE Head(ss) \o Flatten(Tail(ss))

IsDrawn(m) == m.kind = "drawn"
DrawnWords == Flatten([i \in 1..Len(SelectSeq(marks, IsDrawn)) |->
                          SelectSeq(marks, IsDrawn)[i].words])
InputWords(n) == Flatten([i \in 1..n |-> textLines[i].words])
SomeDropped == \E i \in 1..Len(marks) : marks[i].kind = "dropped"

InLog(m) == \E i \in 1..Len(log) : log[i] = m
LogPosition(m) == CHOOSE i \in 1..Len(log) : log[i] = m

\* C25: a method that raised has its warning in the log, the warning names
\* that method, it is there before the next method is called, and for the
\* last method it comes before the error that all methods failed.
C25_FailureLogged ==
    /\ \A e \in EngineSet : Called(e) /\ rpc # e =>
          (Raised(e) <=> InLog(FailureMessage(e)))
    /\ \A e, f \in EngineSet :
          e # f => FailureMessage(e) # FailureMessage(f)
    /\ Called("e2") => InLog(FailureMessage("e1"))
    /\ Called("e3") => InLog(FailureMessage("e2"))
    /\ InLog(AllFailedMessage) <=> AllRaised
    /\ InLog(AllFailedMessage) =>
          /\ LogPosition(FailureMessage("e1")) < LogPosition(FailureMessage("e2"))
          /\ LogPosition(FailureMessage("e2")) < LogPosition(FailureMessage("e3"))
          /\ LogPosition(FailureMessage("e3")) < LogPosition(AllFailedMessage)

\* The second method has failed and the third is about to be called.
C25_Witness ==
    /\ rpc = "e3"
    /\ Raised("e2")
    /\ log = <<FailureMessage("e1"), FailureMessage("e2")>>

(***************************************************************************)
(* The number of document requests: claim C26, checked under ExpressSpec.  *)
(***************************************************************************)
\* C26: one load() sends at most two requests to the document endpoint.
C26_AtMostTwoDocRequests == Cardinality(DocRequests("load")) <= 2

(***************************************************************************)
(* A failed token fetch: claim C29, checked under TokenSpec.               *)
(***************************************************************************)
FetchFails(c) == cpc[c] = "fetching" /\ cpc'[c] = "raised"

\* C29: a fetch that is answered with another status than 200 raises and
\* leaves the cache as it was, so a live token another caller stored stays;
\* the cache only ever holds tokens of 200 answers, so while every fetch
\* has failed it is empty; and a call that finds no live token fetches
\* again, whatever the time.
C29_FailureNotCached ==
    /\ [](\A l \in cache : l.token \in issued)
    /\ [](issued = {} => cache = {})
    /\ [][\A c \in Callers :
            FetchFails(c) =>
               /\ cache' = cache
               /\ issued' = issued
               /\ cret'[c] = EmptyToken]_vars
    /\ [][\A c \in Callers :
            (StartsCall(c) /\ Live(cache, now) = {}) =>
               /\ cpc'[c] = "fetching"
               /\ fetches' = fetches + 1]_vars

\* The first fetch failed and a second one is under way with no time gone.
C29_Witness ==
    \E c \in Callers :
        /\ cpc[c] = "fetching"
        /\ fetches = 2
        /\ issued = {}
        /\ cache = {}
        /\ now = 0
        /\ \A d \in Callers : d # c => cpc[d] = "idle"

(***************************************************************************)
(* The app's sessions: claims C28 and C30, checked under AppSpec.          *)
(***************************************************************************)
\* C28: what a session's results view reads was written by that session,
\* and the HTML file of a session that has results and has not asked for a
\* download is on disk as that session wrote it.
C28_OwnFiles ==
    \A s \in Sessions :
        /\ \A x \in Suffixes : offered[s][x] \in {Nobody, s}
        /\ (processed[s] /\ cleaned = 0 /\ cleanups = {})
              => disk["html"] = s

PressesRegenerate == regens' # regens

====
